---- MODULE Spec2Model ----
(***************************************************************************)
(* A model of the chain state machine of the repository                    *)
(* (src/src/blockchain/blockchain.py), its block format                    *)
(* (src/src/blockchain/block.py), canonical hashing (src/src/utils/        *)
(* crypto.py) and proof of work (src/src/consensus/proof_of_work.py).      *)
(*                                                                         *)
(* SHA-256 is modelled as a collision-free function: the digest of a value *)
(* is the pair <<"sha256", canonical serialization>>, so two digests are   *)
(* equal exactly when the serializations are.  The only other thing the    *)
(* code asks of a digest is how many '0' characters it starts with; that   *)
(* is LeadingZeros, a fixed function of the serialization which depends on *)
(* the nonce, so that mining has something to search for.                  *)
(***************************************************************************)
EXTENDS Integers, Sequences, FiniteSets, TLC

(***************************************************************************)
(* Bounds of the model.                                                    *)
(***************************************************************************)
\* the longest main chain the model builds (genesis included)
MaxChain == 3
\* the most entries the pending dictionary holds
MaxPending == 1
\* wall-clock readings are 1..MaxTime
MaxTime == 2
\* the peers' line of blocks in the drain scenarios is DrainLen blocks long
DrainLen == 3
\* the most transactions a Merkle tree is built from
MaxLeaves == 3
\* adjust_difficulty wants at least this many recent blocks
MinRecent == 10
\* the largest step between the timestamps of successive recent blocks
MaxStep == 7
\* a byte of the address model takes the values 0..ByteBase - 1
ByteBase == 3
\* the bytes of the public-key hash in the address model
HashBytes == 2
\* the bytes of the checksum in the address model
ChecksumBytes == 1
\* the most transactions a wallet creates
MaxWalletNonce == 1
\* the nonces ProofOfWork.mine tries are 0..MaxMineNonce-1 (2**32 in the code)
MaxMineNonce == 4

Times == 1..MaxTime

\* Python's None, where it stands in a string-typed field
None == "None"

(***************************************************************************)
(* Generic helpers for Python lists and insertion-ordered dicts.           *)
(***************************************************************************)
Range(s) == {s[i] : i \in 1..Len(s)}

\* s[n:]  (Python slice, n >= 0)
DropFirst(s, n) == IF n >= Len(s) THEN <<>> ELSE SubSeq(s, n + 1, Len(s))

\* s[:n]
TakeFirst(s, n) == IF n >= Len(s) THEN s ELSE SubSeq(s, 1, n)

\* s with the element at position i removed
RemoveAt(s, i) == SubSeq(s, 1, i - 1) \o SubSeq(s, i + 1, Len(s))

(***************************************************************************)
(* utils/crypto.py                                                         *)
(***************************************************************************)
\* hash_data: json.dumps(sort_keys=True) of a dict is given by the caller as
\* the tuple of its values in sorted-key order; a str is given as a 1-tuple.
hash_data(data) == <<"sha256", data>>

\* the 64-character string "0" * 64
ZeroHash == <<"0000000000000000000000000000000000000000000000000000000000000000">>

\* The digit pattern of a digest: the number of leading '0' characters.  Only
\* block digests are ever tested for a prefix; for them the count is a fixed
\* function of the serialized header (nonce, miner, transaction count,
\* timestamp, difficulty).
MinerSalt(miner) == IF miner = "M1" THEN 0 ELSE IF miner = "M2" THEN 3 ELSE 1

LeadingZeros(h) ==
    IF h = ZeroHash THEN 64
    ELSE IF Len(h[2]) # 8 THEN 0
    ELSE LET d == h[2]
             mix == (d[4] + MinerSalt(d[3]) + Len(d[7]) + d[6] + d[1]) % 4
         IN  IF mix = 3 THEN 2 ELSE IF mix = 2 THEN 1 ELSE 0

\* h.startswith('0' * n)
StartsWithZeros(h, n) == LeadingZeros(h) >= n

(***************************************************************************)
(* Transactions.  Two classes named Transaction exist: block.Transaction   *)
(* (sender, recipient, amount, signature, timestamp; no calculate_hash)    *)
(* and wallet.Transaction (adds nonce, fee, data and calculate_hash).  A   *)
(* model transaction carries its class in cls; nonce and fee are           *)
(* meaningful only for cls = "wallet".                                     *)
(***************************************************************************)
BlockTx(s, r, a, sig, ts) ==
    [cls |-> "block", sender |-> s, recipient |-> r, amount |-> a,
     signature |-> sig, timestamp |-> ts, nonce |-> 0, fee |-> 0]

WalletTx(s, r, a, ts, n, f, sig) ==
    [cls |-> "wallet", sender |-> s, recipient |-> r, amount |-> a,
     signature |-> sig, timestamp |-> ts, nonce |-> n, fee |-> f]

\* Transaction.to_dict, as the sorted-key serialization of the dict
tx_to_dict(tx) ==
    IF tx.cls = "block"
    THEN <<tx.amount, tx.recipient, tx.sender, tx.signature, tx.timestamp>>
    ELSE IF tx.signature = None
         THEN <<tx.amount, tx.fee, tx.nonce, tx.recipient, tx.sender, tx.timestamp>>
         ELSE <<tx.amount, tx.fee, tx.nonce, tx.recipient, tx.sender,
                tx.signature, tx.timestamp>>

\* hasattr(tx, 'calculate_hash'): only wallet.Transaction defines it
HasCalculateHash(tx) == tx.cls = "wallet"

\* wallet.Transaction.calculate_hash: the dict without its signature
tx_calculate_hash(tx) ==
    hash_data(<<tx.amount, tx.fee, tx.nonce, tx.recipient, tx.sender, tx.timestamp>>)

\* isinstance(tx, Transaction) as block.py sees it
IsBlockTransaction(tx) == tx.cls = "block"

(***************************************************************************)
(* block.py: Block                                                         *)
(***************************************************************************)
RECURSIVE MerkleLevels(_)
PairUp(leaves) ==
    [i \in 1..(Len(leaves) \div 2) |-> hash_data(<<leaves[2 * i - 1], leaves[2 * i]>>)]

MerkleLevels(leaves) ==
    IF Len(leaves) <= 1 THEN leaves
    ELSE LET padded == IF Len(leaves) % 2 = 1
                       THEN Append(leaves, leaves[Len(leaves)])
                       ELSE leaves
         IN  MerkleLevels(PairUp(padded))

\* Block._calculate_merkle_root
calculate_merkle_root(transactions) ==
    IF transactions = <<>> THEN hash_data(<<"empty_block">>)
    ELSE MerkleLevels([i \in 1..Len(transactions) |->
                          hash_data(tx_to_dict(transactions[i]))])[1]

\* Block.calculate_hash: the digest of the header dict in sorted-key order
\* (difficulty, merkle_root, miner, nonce, previous_hash, timestamp,
\* transactions, version)
calculate_hash(b) ==
    hash_data(<<b.difficulty, b.merkle_root, b.miner, b.nonce, b.previous_hash,
                b.timestamp, [i \in 1..Len(b.transactions) |->
                                 tx_to_dict(b.transactions[i])], b.version>>)

\* Block.__init__; now is what time.time() returns during the call.  A
\* timestamp argument of 0 stands for every falsy argument (None, 0, 0.0):
\* `timestamp or time.time()` replaces each of them by the clock reading.
NewBlock(miner, transactions, previous_hash, timestamp, nonce, difficulty, now) ==
    LET b == [version |-> "1.0",
              timestamp |-> IF timestamp = 0 THEN now ELSE timestamp,
              previous_hash |-> previous_hash,
              miner |-> miner,
              transactions |-> transactions,
              nonce |-> nonce,
              difficulty |-> difficulty,
              merkle_root |-> calculate_merkle_root(transactions),
              hash |-> ZeroHash]
    IN  [b EXCEPT !.hash = calculate_hash(b)]

\* Block.is_valid
is_valid(b) ==
    /\ b.hash = calculate_hash(b)
    /\ StartsWithZeros(b.hash, b.difficulty)
    /\ \A i \in 1..Len(b.transactions) : IsBlockTransaction(b.transactions[i])

(***************************************************************************)
(* merkle-tree.py: MerkleTree.  A MerkleNode is modelled by its hash, the  *)
(* only field the methods read; a tree is the record of its fields, with   *)
(* transactions the list of dicts it was built from.                       *)
(***************************************************************************)
\* the for loop that creates the parent nodes of an even-length level
Parents(nodes) ==
    [i \in 1..(Len(nodes) \div 2) |-> hash_data(<<nodes[2 * i - 1], nodes[2 * i]>>)]

\* `if len(nodes) % 2 == 1: nodes.append(nodes[-1])`
PadOdd(nodes) ==
    IF Len(nodes) % 2 = 1 THEN Append(nodes, nodes[Len(nodes)]) ELSE nodes

\* the while loop of _build_tree: the node left at the top
RECURSIVE BuildUp(_)
BuildUp(nodes) ==
    IF Len(nodes) <= 1 THEN nodes[1] ELSE BuildUp(Parents(PadOdd(nodes)))

\* what the loops leave in self.leaves: `nodes = self.leaves` is the same
\* list object on the first pass, so the padding of that pass lands in it
LeavesAfterLoop(leaves) == IF Len(leaves) > 1 THEN PadOdd(leaves) ELSE leaves

\* MerkleTree.__init__ with _build_tree
NewMerkleTree(transactions) ==
    LET leaves == [i \in 1..Len(transactions) |-> hash_data(transactions[i])]
    IN  IF leaves = <<>>
        THEN [transactions |-> transactions, leaves |-> <<>>,
              root |-> hash_data(<<"empty_tree">>)]
        ELSE [transactions |-> transactions, leaves |-> LeavesAfterLoop(leaves),
              root |-> BuildUp(leaves)]

\* MerkleTree.get_root_hash
get_root_hash(self) == self.root

\* the while loop of get_proof from the level nodes, for the node at the
\* 0-based position current_index
RECURSIVE ProofFrom(_, _)
ProofFrom(nodes, current_index) ==
    IF Len(nodes) <= 1 THEN <<>>
    ELSE LET padded   == PadOdd(nodes)
             is_right == current_index % 2 = 0
             sibling_index == IF is_right THEN current_index + 1
                              ELSE current_index - 1
         IN  <<[hash |-> padded[sibling_index + 1],
                position |-> IF is_right THEN "right" ELSE "left"]>>
             \o ProofFrom(Parents(padded), current_index \div 2)

\* the 0-based index of the first leaf with the hash, or -1
LeafIndex(leaves, transaction_hash) ==
    IF \E i \in 1..Len(leaves) : leaves[i] = transaction_hash
    THEN (CHOOSE i \in 1..Len(leaves) :
             /\ leaves[i] = transaction_hash
             /\ \A j \in 1..(i - 1) : leaves[j] # transaction_hash) - 1
    ELSE -1

\* a get_proof that names the target's own side instead of the sibling's
get_proof_own_side(self, transaction_hash) ==
    LET leaf_index == LeafIndex(self.leaves, transaction_hash)
    IN  IF leaf_index = -1
        THEN [self |-> self, ret |-> <<>>]
        ELSE LET p == ProofFrom(self.leaves, leaf_index)
             IN  [self |-> self,
                  ret |-> [k \in 1..Len(p) |->
                             [p[k] EXCEPT !.position =
                                 IF @ = "right" THEN "left" ELSE "right"]]]

\* MerkleTree.get_proof
get_proof(self, transaction_hash) ==
    LET leaf_index == LeafIndex(self.leaves, transaction_hash)
    IN  IF leaf_index = -1
        THEN [self |-> self, ret |-> <<>>]
        ELSE [self |-> [self EXCEPT !.leaves = LeavesAfterLoop(@)],
              ret |-> ProofFrom(self.leaves, leaf_index)]

\* MerkleTree.verify_proof: any position other than 'left' puts the sibling
\* on the right
RECURSIVE verify_fold(_, _)
verify_fold(current_hash, proof) ==
    IF proof = <<>> THEN current_hash
    ELSE verify_fold(IF proof[1].position = "left"
                     THEN hash_data(<<proof[1].hash, current_hash>>)
                     ELSE hash_data(<<current_hash, proof[1].hash>>),
                     DropFirst(proof, 1))

verify_proof(transaction_hash, proof, root_hash) ==
    verify_fold(transaction_hash, proof) = root_hash

(***************************************************************************)
(* consensus/proof_of_work.py: ProofOfWork                                 *)
(***************************************************************************)
\* ProofOfWork.__init__: the target '0' * difficulty is kept as its length
NewProofOfWork(difficulty) == [difficulty |-> difficulty, target |-> difficulty]

\* a validate that compares the hashes and forgets the target prefix
pow_validate_hash_only(pow, b) == calculate_hash(b) = b.hash

\* ProofOfWork.validate
pow_validate(pow, b) ==
    /\ calculate_hash(b) = b.hash
    /\ StartsWithZeros(calculate_hash(b), pow.target)

\* hasattr(block, 'height'): Block.__init__ sets no such attribute
HasHeight(b) == "height" \in DOMAIN b

\* the nonce loop of ProofOfWork.mine from nonce n on: the first nonce whose
\* digest starts with the target, or max_nonce when there is none
RECURSIVE FirstNonce(_, _, _)
FirstNonce(pow, b, n) ==
    IF n >= MaxMineNonce THEN MaxMineNonce
    ELSE IF StartsWithZeros(calculate_hash([b EXCEPT !.nonce = n]), pow.target)
         THEN n
         ELSE FirstNonce(pow, b, n + 1)

\* ProofOfWork.mine.  The first statement formats block.height into a log
\* line; a Block has no such attribute, so the call raises AttributeError
\* before the nonce loop.  On exhaustion the block keeps the last nonce tried.
pow_mine(pow, b) ==
    IF ~HasHeight(b)
    THEN [exc |-> "AttributeError", ok |-> FALSE, block |-> b]
    ELSE LET n == FirstNonce(pow, b, 0)
         IN  IF n < MaxMineNonce
             THEN [exc |-> None, ok |-> TRUE,
                   block |-> [b EXCEPT !.nonce = n,
                                       !.hash = calculate_hash([b EXCEPT !.nonce = n])]]
             ELSE [exc |-> None, ok |-> FALSE,
                   block |-> [b EXCEPT !.nonce = MaxMineNonce - 1]]

\* the time_diff loop of adjust_difficulty: sum(block_times)
RECURSIVE SumBlockTimes(_, _)
SumBlockTimes(recent_blocks, i) ==
    IF i > Len(recent_blocks) THEN 0
    ELSE (recent_blocks[i].timestamp - recent_blocks[i - 1].timestamp)
           + SumBlockTimes(recent_blocks, i + 1)

\* an adjust_difficulty that averages over the blocks, not over the deltas
adjust_difficulty_per_block(pow, recent_blocks, target_block_time) ==
    IF Len(recent_blocks) < MinRecent THEN <<>>
    ELSE LET total == SumBlockTimes(recent_blocks, 2)
             count == Len(recent_blocks)
         IN  IF 2 * total < target_block_time * count
             THEN <<pow.difficulty + 1>>
             ELSE IF 2 * total > 3 * target_block_time * count
             THEN <<IF pow.difficulty - 1 > 1 THEN pow.difficulty - 1 ELSE 1>>
             ELSE <<>>

\* ProofOfWork.adjust_difficulty; the result is <<>> for None and <<d>> for
\* a difficulty d.  With avg = total / count, the test avg < T * 0.5 is
\* 2 * total < T * count, and avg > T * 1.5 is 2 * total > 3 * T * count.
adjust_difficulty(pow, recent_blocks, target_block_time) ==
    IF Len(recent_blocks) < MinRecent THEN <<>>
    ELSE LET total == SumBlockTimes(recent_blocks, 2)
             count == Len(recent_blocks) - 1
         IN  IF 2 * total < target_block_time * count
             THEN <<pow.difficulty + 1>>
             ELSE IF 2 * total > 3 * target_block_time * count
             THEN <<IF pow.difficulty - 1 > 1 THEN pow.difficulty - 1 ELSE 1>>
             ELSE <<>>

(***************************************************************************)
(* blockchain.py: Blockchain.  An object is the record of its fields; a    *)
(* dict is the sequence of its items [k, v] in insertion order.            *)
(***************************************************************************)
DictHas(d, key) == \E i \in 1..Len(d) : d[i].k = key

\* d[key] = value: a present key keeps its position
DictSet(d, key, value) ==
    IF DictHas(d, key)
    THEN [i \in 1..Len(d) |-> IF d[i].k = key THEN [k |-> key, v |-> value] ELSE d[i]]
    ELSE Append(d, [k |-> key, v |-> value])

\* del d[key]
DictDel(d, key) ==
    LET i == CHOOSE j \in 1..Len(d) : d[j].k = key IN RemoveAt(d, i)

\* Blockchain.create_genesis_block
GenesisTx == BlockTx("0", "Genesis", 0, "0", 0)

create_genesis_block(difficulty, now) ==
    NewBlock("Genesis", <<GenesisTx>>, ZeroHash, 0, 0, difficulty, now)

\* Blockchain.__init__
NewBlockchain(difficulty, now) ==
    [difficulty |-> difficulty,
     unconfirmed_transactions |-> <<>>,
     chain |-> <<create_genesis_block(difficulty, now)>>,
     pending_blocks |-> <<>>,
     known_transactions |-> {},
     pow |-> NewProofOfWork(difficulty)]

\* Blockchain.last_block
last_block(self) == self.chain[Len(self.chain)]

\* Blockchain.validate_transaction
validate_transaction(tx) ==
    /\ tx.sender # "" /\ tx.recipient # ""
    /\ tx.amount > 0
    /\ tx.signature # None /\ tx.signature # ""

\* Blockchain.add_transaction
\* an add_transaction that admits without recording the identity hash
add_transaction_unrecorded(self, tx) ==
    IF ~HasCalculateHash(tx)
    THEN [self |-> self, ret |-> "None", exc |-> "AttributeError"]
    ELSE IF tx_calculate_hash(tx) \in self.known_transactions
    THEN [self |-> self, ret |-> "False", exc |-> None]
    ELSE IF ~validate_transaction(tx)
    THEN [self |-> self, ret |-> "False", exc |-> None]
    ELSE [self |-> [self EXCEPT !.unconfirmed_transactions = Append(@, tx)],
          ret |-> "True", exc |-> None]

add_transaction(self, tx) ==
    IF ~HasCalculateHash(tx)
    THEN [self |-> self, ret |-> "None", exc |-> "AttributeError"]
    ELSE IF tx_calculate_hash(tx) \in self.known_transactions
    THEN [self |-> self, ret |-> "False", exc |-> None]
    ELSE IF ~validate_transaction(tx)
    THEN [self |-> self, ret |-> "False", exc |-> None]
    ELSE [self |-> [self EXCEPT
                      !.unconfirmed_transactions = Append(@, tx),
                      !.known_transactions = @ \cup {tx_calculate_hash(tx)}],
          ret |-> "True", exc |-> None]

\* Blockchain.add_block and Blockchain._process_pending_blocks call each other
RECURSIVE add_block(_, _), process_pending_blocks(_), ScanPending(_, _, _)

\* an add_block that files a disconnected block under its parent's hash
add_block_keyed_by_parent(self, b) ==
    IF ~is_valid(b)
    THEN [self |-> self, ret |-> "False"]
    ELSE IF b.previous_hash = last_block(self).hash
    THEN IF ~pow_validate(self.pow, b)
         THEN [self |-> self, ret |-> "False"]
         ELSE [self |-> process_pending_blocks(
                            [self EXCEPT !.chain = Append(@, b)]),
               ret |-> "True"]
    ELSE [self |-> [self EXCEPT !.pending_blocks = DictSet(@, b.previous_hash, b)],
          ret |-> "False"]

\* an add_block that keeps a block whose proof of work fails as pending
add_block_pending_on_pow_failure(self, b) ==
    IF ~is_valid(b)
    THEN [self |-> self, ret |-> "False"]
    ELSE IF b.previous_hash = last_block(self).hash /\ pow_validate(self.pow, b)
    THEN [self |-> process_pending_blocks([self EXCEPT !.chain = Append(@, b)]),
          ret |-> "True"]
    ELSE [self |-> [self EXCEPT !.pending_blocks = DictSet(@, b.hash, b)],
          ret |-> "False"]

\* Blockchain.add_block
add_block(self, b) ==
    IF ~is_valid(b)
    THEN [self |-> self, ret |-> "False"]
    ELSE IF b.previous_hash = last_block(self).hash
    THEN IF ~pow_validate(self.pow, b)
         THEN [self |-> self, ret |-> "False"]
         ELSE [self |-> process_pending_blocks(
                            [self EXCEPT !.chain = Append(@, b)]),
               ret |-> "True"]
    ELSE [self |-> [self EXCEPT !.pending_blocks = DictSet(@, b.hash, b)],
          ret |-> "False"]

\* the for loop of _process_pending_blocks over the snapshot items, from
\* position i: the first item that links to the tip and that add_block takes
\* is deleted and the while loop starts over; after a full pass that adds
\* nothing the while loop ends
ScanPending(self, items, i) ==
    IF i > Len(items) THEN self
    ELSE IF items[i].v.previous_hash = last_block(self).hash
    THEN LET r == add_block(self, items[i].v)
         IN  IF r.ret = "True"
             THEN process_pending_blocks(
                      [r.self EXCEPT !.pending_blocks = DictDel(@, items[i].k)])
             ELSE ScanPending(r.self, items, i + 1)
    ELSE ScanPending(self, items, i + 1)

\* Blockchain._process_pending_blocks
\* a drain that looks at the oldest pending block only
process_pending_blocks_oldest_only(self) ==
    ScanPending(self, TakeFirst(self.pending_blocks, 1), 1)

process_pending_blocks(self) == ScanPending(self, self.pending_blocks, 1)

\* Blockchain._validate_chain
validate_chain(self, c) ==
    /\ c # <<>>
    /\ c[1].hash = self.chain[1].hash
    /\ \A i \in 2..Len(c) :
          /\ is_valid(c[i])
          /\ c[i].previous_hash = c[i - 1].hash
          /\ pow_validate(self.pow, c[i])

\* a replace_chain that also takes a candidate of equal length
replace_chain_not_shorter(self, new_chain) ==
    IF ~validate_chain(self, new_chain)
    THEN [self |-> self, ret |-> "False"]
    ELSE IF Len(new_chain) < Len(self.chain)
    THEN [self |-> self, ret |-> "False"]
    ELSE [self |-> [self EXCEPT !.chain = new_chain], ret |-> "True"]

\* a replace_chain that retries the pending blocks on the new tip
replace_chain_draining(self, new_chain) ==
    IF ~validate_chain(self, new_chain)
    THEN [self |-> self, ret |-> "False"]
    ELSE IF Len(new_chain) <= Len(self.chain)
    THEN [self |-> self, ret |-> "False"]
    ELSE [self |-> process_pending_blocks([self EXCEPT !.chain = new_chain]),
          ret |-> "True"]

\* Blockchain.replace_chain
replace_chain(self, new_chain) ==
    IF ~validate_chain(self, new_chain)
    THEN [self |-> self, ret |-> "False"]
    ELSE IF Len(new_chain) <= Len(self.chain)
    THEN [self |-> self, ret |-> "False"]
    ELSE [self |-> [self EXCEPT !.chain = new_chain], ret |-> "True"]

\* Blockchain.verify_chain
verify_chain(self) ==
    \A i \in 2..Len(self.chain) :
        /\ is_valid(self.chain[i])
        /\ self.chain[i].previous_hash = self.chain[i - 1].hash
        /\ pow_validate(self.pow, self.chain[i])

\* Blockchain.mine_block; a timestamp argument of 0 is the omitted argument
mine_block(self, miner_address, now) ==
    IF self.unconfirmed_transactions = <<>>
    THEN [self |-> self, ret |-> <<>>, exc |-> None]
    ELSE LET new_block == NewBlock(miner_address,
                                   TakeFirst(self.unconfirmed_transactions, 10),
                                   last_block(self).hash, 0, 0,
                                   self.difficulty, now)
             m == pow_mine(self.pow, new_block)
             cut == [self EXCEPT !.unconfirmed_transactions = DropFirst(@, 10)]
         IN  IF m.exc # None
             THEN [self |-> self, ret |-> <<>>, exc |-> m.exc]
             ELSE IF m.ok
             THEN IF add_block(cut, m.block).ret = "True"
                  THEN [self |-> add_block(cut, m.block).self,
                        ret |-> <<m.block>>, exc |-> None]
                  ELSE [self |-> add_block(cut, m.block).self,
                        ret |-> <<>>, exc |-> None]
             ELSE [self |-> self, ret |-> <<>>, exc |-> None]

\* the transactions of the chain's blocks, in chain order
RECURSIVE ChainTransactions(_)
ChainTransactions(c) ==
    IF c = <<>> THEN <<>>
    ELSE c[1].transactions \o ChainTransactions(DropFirst(c, 1))

\* the loop body of Blockchain.get_balance over the transactions txs
RECURSIVE BalanceOver(_, _)
BalanceOver(txs, address) ==
    IF txs = <<>> THEN 0
    ELSE LET tx == txs[Len(txs)]
         IN  BalanceOver(TakeFirst(txs, Len(txs) - 1), address)
               + (IF tx.recipient = address THEN tx.amount ELSE 0)
               - (IF tx.sender = address THEN tx.amount ELSE 0)

\* Blockchain.get_balance
get_balance(self, address) == BalanceOver(ChainTransactions(self.chain), address)

(***************************************************************************)
(* wallet.py: Wallet addresses.  Byte strings are sequences of byte        *)
(* values, most significant first; the model's bytes have ByteBase values, *)
(* the public-key hash HashBytes bytes and the checksum ChecksumBytes.  A  *)
(* string is the sequence of its characters.                               *)
(***************************************************************************)
\* the Base58 alphabet
Alphabet ==
    <<"1", "2", "3", "4", "5", "6", "7", "8", "9",
      "A", "B", "C", "D", "E", "F", "G", "H", "J", "K", "L", "M", "N", "P",
      "Q", "R", "S", "T", "U", "V", "W", "X", "Y", "Z",
      "a", "b", "c", "d", "e", "f", "g", "h", "i", "j", "k", "m", "n", "o",
      "p", "q", "r", "s", "t", "u", "v", "w", "x", "y", "z">>

\* int.from_bytes(bytes, byteorder='big')
RECURSIVE FromBytes(_)
FromBytes(bytes) ==
    IF bytes = <<>> THEN 0
    ELSE FromBytes(TakeFirst(bytes, Len(bytes) - 1)) * ByteBase + bytes[Len(bytes)]

\* value.to_bytes((value.bit_length() + 7) // 8, byteorder='big'): as many
\* bytes as the value needs, none for 0
RECURSIVE ToBytes(_)
ToBytes(value) ==
    IF value = 0 THEN <<>>
    ELSE Append(ToBytes(value \div ByteBase), value % ByteBase)

\* value.to_bytes(n, byteorder='big') of a value that fits
RECURSIVE ToBytesN(_, _)
ToBytesN(value, n) ==
    IF n = 0 THEN <<>>
    ELSE Append(ToBytesN(value \div ByteBase, n - 1), value % ByteBase)

\* ByteBase to the power n
RECURSIVE BytePower(_)
BytePower(n) == IF n = 0 THEN 1 ELSE ByteBase * BytePower(n - 1)

\* RIPEMD160(SHA256(public_bytes)): a key is known by a number, and every
\* hash value is the hash of one key
Hash160(key) == ToBytesN((key + 1) % BytePower(HashBytes), HashBytes)

\* SHA256(SHA256(versioned_hash))[:4]: a fixed function of the bytes
Checksum(versioned_hash) ==
    ToBytesN((FromBytes(versioned_hash) * 7 + 5 + Len(versioned_hash))
               % BytePower(ChecksumBytes), ChecksumBytes)

\* the while loop of the Base58 encoding
RECURSIVE EncodeValue(_)
EncodeValue(value) ==
    IF value = 0 THEN <<>>
    ELSE Append(EncodeValue(value \div 58), Alphabet[(value % 58) + 1])

\* the for loop that prepends alphabet[0] for each leading zero byte
RECURSIVE LeadingOnes(_)
LeadingOnes(bytes) ==
    IF bytes # <<>> /\ bytes[1] = 0
    THEN <<Alphabet[1]>> \o LeadingOnes(DropFirst(bytes, 1))
    ELSE <<>>

\* the Base58 encoding of versioned_hash + checksum as _generate_address
\* does it
EncodeAddress(versioned_hash) ==
    LeadingOnes(versioned_hash)
      \o EncodeValue(FromBytes(versioned_hash \o Checksum(versioned_hash)))

\* Wallet._generate_address for the key
generate_address(key) == EncodeAddress(<<0>> \o Hash160(key))

\* alphabet.index(char), -1 standing for the ValueError
AlphabetIndex(char) ==
    IF \E i \in 1..58 : Alphabet[i] = char
    THEN (CHOOSE i \in 1..58 : Alphabet[i] = char) - 1
    ELSE -1

\* the decoding loop of _is_valid_address
RECURSIVE DecodeValue(_)
DecodeValue(address) ==
    IF address = <<>> THEN 0
    ELSE DecodeValue(TakeFirst(address, Len(address) - 1)) * 58
           + AlphabetIndex(address[Len(address)])

\* Wallet._is_valid_address: a character outside the alphabet raises inside
\* the try block and gives False
is_valid_address(address) ==
    IF \E i \in 1..Len(address) : AlphabetIndex(address[i]) = -1
    THEN FALSE
    ELSE LET binary_address == ToBytes(DecodeValue(address))
         IN  IF Len(binary_address) # 1 + HashBytes + ChecksumBytes
             THEN FALSE
             ELSE DropFirst(binary_address, 1 + HashBytes)
                    = Checksum(TakeFirst(binary_address, 1 + HashBytes))

\* Wallet.__init__ with a fresh key
NewWallet(key) == [key |-> key, address |-> generate_address(key), nonce |-> 0]

\* Wallet.create_transaction
create_transaction(self, recipient, amount, fee, now) ==
    IF ~is_valid_address(recipient)
    THEN [self |-> self, ret |-> <<>>, exc |-> "ValueError"]
    ELSE IF amount <= 0
    THEN [self |-> self, ret |-> <<>>, exc |-> "ValueError"]
    ELSE IF fee < 0
    THEN [self |-> self, ret |-> <<>>, exc |-> "ValueError"]
    ELSE [self |-> [self EXCEPT !.nonce = @ + 1],
          ret |-> <<WalletTx(self.address, recipient, amount, now, self.nonce,
                             fee, "sigW")>>,
          exc |-> None]

(***************************************************************************)
(* networking/gossip.py: GossipProtocol.  A JSON message is the record of  *)
(* its keys; an address is the pair <<host, port>>; a datagram sent is the *)
(* record of the message and the address it goes to.  The intervals are in *)
(* clock units and scaled down, and so is the size of the peer table.      *)
(***************************************************************************)
\* GossipProtocol.MAX_PEERS (10 in the code)
MAX_PEERS == 1
\* GossipProtocol.PEER_TIMEOUT (300 s in the code)
PEER_TIMEOUT == 2
\* GossipProtocol.CLEANUP_INTERVAL (60 s in the code)
CLEANUP_INTERVAL == 2
\* GossipProtocol.GOSSIP_INTERVAL (30 s in the code)
GOSSIP_INTERVAL == 1

\* GossipProtocol.VERSION
VERSION == "1.0.0"

\* None where a dict is expected: a record with none of the keys
NoneDict == [isNone |-> TRUE]

\* message.get(key, default)
Get(message, key, default) ==
    IF key \in DOMAIN message THEN message[key] ELSE default

\* s[start:end] of a Python list, negative indices included
SliceIndex(s, i) ==
    IF i < 0 THEN (IF Len(s) + i < 0 THEN 0 ELSE Len(s) + i)
    ELSE IF i > Len(s) THEN Len(s) ELSE i

Slice(s, start, end) == SubSeq(s, SliceIndex(s, start) + 1, SliceIndex(s, end))

\* Transaction.to_dict as the dict itself (block.py) and wallet.Transaction's
\* to_dict, which leaves out the keys whose value is None
tx_dict(tx) ==
    IF tx.cls = "block"
    THEN [sender |-> tx.sender, recipient |-> tx.recipient, amount |-> tx.amount,
          signature |-> tx.signature, timestamp |-> tx.timestamp]
    ELSE IF tx.signature = None
    THEN [sender |-> tx.sender, recipient |-> tx.recipient, amount |-> tx.amount,
          timestamp |-> tx.timestamp, nonce |-> tx.nonce, fee |-> tx.fee]
    ELSE [sender |-> tx.sender, recipient |-> tx.recipient, amount |-> tx.amount,
          timestamp |-> tx.timestamp, nonce |-> tx.nonce, fee |-> tx.fee,
          signature |-> tx.signature]

\* Transaction.from_dict of block.py, cls(**data): a key that is no field, or
\* a missing sender, recipient or amount, raises TypeError; signature
\* defaults to None and timestamp to the clock reading at import, 1
tx_from_dict(data) ==
    IF /\ DOMAIN data \subseteq
             {"sender", "recipient", "amount", "signature", "timestamp"}
       /\ {"sender", "recipient", "amount"} \subseteq DOMAIN data
    THEN [exc |-> None,
          tx |-> BlockTx(data.sender, data.recipient, data.amount,
                         Get(data, "signature", None), Get(data, "timestamp", 1))]
    ELSE [exc |-> "TypeError", tx |-> GenesisTx]

\* Block.to_dict
block_to_dict(b) ==
    [version |-> b.version, timestamp |-> b.timestamp,
     previous_hash |-> b.previous_hash, miner |-> b.miner,
     transactions |-> [i \in 1..Len(b.transactions) |-> tx_dict(b.transactions[i])],
     nonce |-> b.nonce, difficulty |-> b.difficulty,
     merkle_root |-> b.merkle_root, hash |-> b.hash]

\* Block.from_dict: the keys are read in the order transactions, miner,
\* previous_hash, timestamp, nonce, difficulty, hash; a missing one raises
\* KeyError, a transaction that does not deserialize TypeError
block_from_dict(data, now) ==
    IF "transactions" \notin DOMAIN data
    THEN [exc |-> "KeyError", block |-> NoneDict]
    ELSE IF \E i \in 1..Len(data.transactions) :
                tx_from_dict(data.transactions[i]).exc # None
    THEN [exc |-> "TypeError", block |-> NoneDict]
    ELSE IF ~({"miner", "previous_hash", "timestamp", "nonce", "difficulty",
               "hash"} \subseteq DOMAIN data)
    THEN [exc |-> "KeyError", block |-> NoneDict]
    ELSE [exc |-> None,
          block |-> [NewBlock(data.miner,
                              [i \in 1..Len(data.transactions) |->
                                  tx_from_dict(data.transactions[i]).tx],
                              data.previous_hash, data.timestamp, data.nonce,
                              data.difficulty, now)
                       EXCEPT !.hash = data.hash]]

\* Peer(host, port, last_seen, node_id, version): height defaults to 0
NewPeer(host, port, last_seen, node_id, version) ==
    [host |-> host, port |-> port, last_seen |-> last_seen, node_id |-> node_id,
     version |-> version, height |-> 0]

\* GossipProtocol.__init__; node_id is the uuid4 drawn.  server is <<>> for
\* None and <<e>> for the transport of endpoint e.
NewGossipProtocol(host, port, node_id) ==
    [host |-> host, port |-> port, node_id |-> node_id, peers |-> <<>>,
     known_messages |-> {}, server |-> <<>>, running |-> FALSE]

\* the event loop before anything is started: no task, no open endpoint, no
\* endpoint created so far
NewEventLoop == [tasks |-> <<>>, endpoints |-> {}, created |-> 0]

\* self.server.sendto works: there is a transport and it is not closed
CanSend(self, lp) == self.server # <<>> /\ self.server[1] \in lp.endpoints

\* GossipProtocol._send_message: an exception of sendto (no transport, a
\* closed one) is logged and nothing is sent
send_message(can_send, message, addr) ==
    IF can_send THEN <<[message |-> message, addr |-> addr]>> ELSE <<>>

\* GossipProtocol._broadcast_message: one datagram per peer, in dict order
RECURSIVE broadcast_to(_, _, _)
broadcast_to(can_send, message, peers) ==
    IF peers = <<>> THEN <<>>
    ELSE send_message(can_send, message, <<peers[1].v.host, peers[1].v.port>>)
           \o broadcast_to(can_send, message, DropFirst(peers, 1))

broadcast_message(self, can_send, message) ==
    broadcast_to(can_send, message, self.peers)

\* the message of _broadcast_status
status_message(self, bc) ==
    [type |-> "STATUS", node_id |-> self.node_id, version |-> VERSION,
     height |-> Len(bc.chain)]

\* GossipProtocol._broadcast_status
broadcast_status(self, bc, can_send) ==
    broadcast_message(self, can_send, status_message(self, bc))

\* GossipProtocol._broadcast_transaction
broadcast_transaction(self, can_send, tx) ==
    broadcast_message(self, can_send,
                      [type |-> "NEW_TRANSACTION", transaction |-> tx_dict(tx),
                       node_id |-> self.node_id])

\* GossipProtocol._request_blocks
request_blocks(self, can_send, addr, start) ==
    send_message(can_send,
                 [type |-> "GET_BLOCKS", start |-> start, node_id |-> self.node_id],
                 addr)

\* what a handler leaves behind: the two objects, the datagrams sent, the
\* blocks offered to add_block, and the exception that was logged
Handled(self, bc, sent, offered, exc) ==
    [self |-> self, blockchain |-> bc, sent |-> sent, offered |-> offered,
     exc |-> exc]

\* a _handle_hello that registers the sender in place of a peer it knows
handle_hello_overwriting(self, bc, can_send, message, addr, now) ==
    LET node_id == Get(message, "node_id", None)
        version == Get(message, "version", None)
    IN  IF DictHas(self.peers, node_id) \/ Len(self.peers) < MAX_PEERS
        THEN Handled([self EXCEPT !.peers =
                         DictSet(@, node_id,
                                 NewPeer(addr[1], addr[2], now, node_id, version))],
                     bc, <<>>, <<>>, "AttributeError")
        ELSE Handled(self, bc, <<>>, <<>>, None)

\* GossipProtocol._handle_hello.  After the insertion the handler calls
\* self._send_status, a method the class does not define: AttributeError,
\* which handle_message logs; no STATUS goes out.
handle_hello(self, bc, can_send, message, addr, now) ==
    LET node_id == Get(message, "node_id", None)
        version == Get(message, "version", None)
    IN  IF ~DictHas(self.peers, node_id) /\ Len(self.peers) < MAX_PEERS
        THEN Handled([self EXCEPT !.peers =
                         DictSet(@, node_id,
                                 NewPeer(addr[1], addr[2], now, node_id, version))],
                     bc, <<>>, <<>>, "AttributeError")
        ELSE Handled(self, bc, <<>>, <<>>, None)

\* self.peers[node_id]
PeerOf(self, node_id) ==
    self.peers[CHOOSE i \in 1..Len(self.peers) : self.peers[i].k = node_id].v

\* a _handle_status that asks for the blocks from the genesis block on
handle_status_from_genesis(self, bc, can_send, message, addr, now) ==
    LET node_id == Get(message, "node_id", None)
        height  == Get(message, "height", 0)
    IN  IF DictHas(self.peers, node_id)
        THEN Handled([self EXCEPT !.peers =
                         DictSet(@, node_id,
                                 [PeerOf(self, node_id) EXCEPT
                                     !.last_seen = now, !.height = height])],
                     bc,
                     IF height > Len(bc.chain)
                     THEN request_blocks(self, can_send, addr, 0)
                     ELSE <<>>,
                     <<>>, None)
        ELSE Handled(self, bc, <<>>, <<>>, None)

\* GossipProtocol._handle_status
handle_status(self, bc, can_send, message, addr, now) ==
    LET node_id == Get(message, "node_id", None)
        height  == Get(message, "height", 0)
    IN  IF DictHas(self.peers, node_id)
        THEN Handled([self EXCEPT !.peers =
                         DictSet(@, node_id,
                                 [PeerOf(self, node_id) EXCEPT
                                     !.last_seen = now, !.height = height])],
                     bc,
                     IF height > Len(bc.chain)
                     THEN request_blocks(self, can_send, addr, Len(bc.chain))
                     ELSE <<>>,
                     <<>>, None)
        ELSE Handled(self, bc, <<>>, <<>>, None)

\* GossipProtocol._handle_get_blocks
handle_get_blocks(self, bc, can_send, message, addr, now) ==
    LET start  == Get(message, "start", 0)
        end    == Get(message, "end", Len(bc.chain))
        blocks == Slice(bc.chain, start, end)
    IN  Handled(self, bc,
                send_message(can_send,
                             [type |-> "BLOCKS",
                              blocks |-> [i \in 1..Len(blocks) |->
                                             block_to_dict(blocks[i])],
                              node_id |-> self.node_id],
                             addr),
                <<>>, None)

\* the for loop of _handle_blocks: each block goes to add_block, whatever
\* add_block said of the ones before
RECURSIVE OfferBlocks(_, _)
OfferBlocks(bc, blocks) ==
    IF blocks = <<>> THEN bc
    ELSE OfferBlocks(add_block(bc, blocks[1]).self, DropFirst(blocks, 1))

\* GossipProtocol._handle_blocks: the list comprehension deserializes every
\* block before the first is offered, and an exception in it ends the handler
handle_blocks(self, bc, can_send, message, addr, now) ==
    LET blocks_data == Get(message, "blocks", <<>>)
        results == [i \in 1..Len(blocks_data) |-> block_from_dict(blocks_data[i], now)]
    IN  IF \E i \in 1..Len(results) : results[i].exc # None
        THEN Handled(self, bc, <<>>, <<>>,
                     results[CHOOSE i \in 1..Len(results) :
                                /\ results[i].exc # None
                                /\ \A j \in 1..(i - 1) : results[j].exc = None].exc)
        ELSE LET blocks == [i \in 1..Len(results) |-> results[i].block]
             IN  Handled(self, OfferBlocks(bc, blocks), <<>>, blocks, None)

\* GossipProtocol._handle_new_transaction: Transaction is block.Transaction
handle_new_transaction(self, bc, can_send, message, addr, now) ==
    LET d == tx_from_dict(Get(message, "transaction", NoneDict))
        r == add_transaction(bc, d.tx)
    IN  IF d.exc # None
        THEN Handled(self, bc, <<>>, <<>>, d.exc)
        ELSE IF r.exc # None
        THEN Handled(self, r.self, <<>>, <<>>, r.exc)
        ELSE IF r.ret = "True"
        THEN Handled(self, r.self, broadcast_transaction(self, can_send, d.tx),
                     <<>>, None)
        ELSE Handled(self, r.self, <<>>, <<>>, None)

\* GossipProtocol.handle_message; data that is no JSON is the record with the
\* key invalid_json
handle_message(self, bc, can_send, data, addr, now) ==
    LET message_type == Get(data, "type", None)
    IN  IF "invalid_json" \in DOMAIN data
        THEN Handled(self, bc, <<>>, <<>>, "JSONDecodeError")
        ELSE IF message_type = "HELLO"
        THEN handle_hello(self, bc, can_send, data, addr, now)
        ELSE IF message_type = "STATUS"
        THEN handle_status(self, bc, can_send, data, addr, now)
        ELSE IF message_type = "GET_BLOCKS"
        THEN handle_get_blocks(self, bc, can_send, data, addr, now)
        ELSE IF message_type = "BLOCKS"
        THEN handle_blocks(self, bc, can_send, data, addr, now)
        ELSE IF message_type = "NEW_TRANSACTION"
        THEN handle_new_transaction(self, bc, can_send, data, addr, now)
        ELSE Handled(self, bc, <<>>, <<>>, None)

\* the peers a pass of _cleanup_peers at the time `now` finds inactive
Inactive(peer, now) == now - peer.last_seen > PEER_TIMEOUT

\* a pass that also removes the peers whose age has just reached the timeout
cleanup_pass_at_timeout(self, now) ==
    LET Keep(item) == now - item.v.last_seen < PEER_TIMEOUT
    IN  [self EXCEPT !.peers = SelectSeq(@, Keep)]

\* one pass of the loop body of GossipProtocol._cleanup_peers
cleanup_pass(self, now) ==
    LET Keep(item) == ~Inactive(item.v, now)
    IN  [self EXCEPT !.peers = SelectSeq(@, Keep)]

\* one pass of the loop body of GossipProtocol._periodic_gossip: the
\* datagrams it sends
gossip_pass(self, bc, can_send) ==
    IF self.peers # <<>> THEN broadcast_status(self, bc, can_send) ELSE <<>>

\* asyncio.create_task of a periodic coroutine: it runs first at once
NewTask(kind, now) == [kind |-> kind, wake |-> now]

\* GossipProtocol.start.  create_datagram_endpoint binds (host, port); while
\* an endpoint of the node is open on that address the bind fails with
\* OSError, after running has been set and before the tasks are created.
start(self, lp, now) ==
    IF lp.endpoints # {}
    THEN [self |-> [self EXCEPT !.running = TRUE], loop |-> lp, exc |-> "OSError"]
    ELSE [self |-> [self EXCEPT !.running = TRUE, !.server = <<lp.created + 1>>],
          loop |-> [tasks |-> lp.tasks \o <<NewTask("gossip", now),
                                             NewTask("cleanup", now)>>,
                    endpoints |-> {lp.created + 1},
                    created |-> lp.created + 1],
          exc |-> None]

\* GossipProtocol.stop
stop(self, lp) ==
    [self |-> [self EXCEPT !.running = FALSE],
     loop |-> IF self.server # <<>>
              THEN [lp EXCEPT !.endpoints = @ \ {self.server[1]}]
              ELSE lp]

(***************************************************************************)
(* The inputs the operations are called with.                              *)
(***************************************************************************)
\* the chain difficulty of the model (the constructor's default is 4)
Difficulty == 1

\* the same payment as a wallet.Transaction and as a block.Transaction
WT1 == WalletTx("A", "B", 5, 1, 0, 1, "sigA")
WT2 == WalletTx("B", "A", 3, 1, 0, 1, "sigB")
BT1 == BlockTx("A", "B", 5, "sigA", 1)

\* transactions offered to add_transaction: valid ones, one that differs from
\* WT1 in its signature only, the three kinds validate_transaction refuses,
\* and a block.Transaction
TxInputs ==
    {WT1, WT2,
     [WT1 EXCEPT !.signature = "sigX"],
     [WT2 EXCEPT !.amount = 0],
     [WT2 EXCEPT !.signature = None],
     [WT2 EXCEPT !.sender = ""],
     BT1}

Miners == {"M1", "M2"}

\* addresses asked for their balance: the two parties of the transactions
\* and the genesis sender
Addresses == {"A", "B", "0"}

\* b with nonce n and the hash that goes with it
WithNonce(b, n) ==
    [b EXCEPT !.nonce = n, !.hash = calculate_hash([b EXCEPT !.nonce = n])]

\* a block a peer has mined on parent hash p for the difficulty d it declares
PeerBlock(miner, txs, p, d) ==
    LET b == NewBlock(miner, txs, p, 1, 0, d, 1)
    IN  WithNonce(b, FirstNonce(NewProofOfWork(d), b, 0))

\* the same block with the first nonce whose digest misses the difficulty
Unmined(b) ==
    WithNonce(b, CHOOSE n \in 0..3 :
                    /\ ~StartsWithZeros(WithNonce(b, n).hash, b.difficulty)
                    /\ \A m \in 0..(n - 1) :
                          StartsWithZeros(WithNonce(b, m).hash, b.difficulty))

\* what peers send as a block on parent hash p: M1's block with a payment,
\* M2's competing empty block, a block that declares difficulty 0, an unmined
\* block, a block holding an entry that is no block.Transaction, and M1's
\* block with its stored hash or its content changed after mining
Children(p) ==
    {PeerBlock("M1", <<BT1>>, p, Difficulty),
     PeerBlock("M2", <<>>, p, Difficulty),
     PeerBlock("M2", <<>>, p, 0),
     Unmined(PeerBlock("M1", <<BT1>>, p, Difficulty)),
     PeerBlock("M2", <<WT1>>, p, Difficulty),
     [PeerBlock("M1", <<BT1>>, p, Difficulty) EXCEPT !.hash = ZeroHash],
     [PeerBlock("M1", <<BT1>>, p, Difficulty) EXCEPT !.miner = "Eve"]}

\* Line(g, k): the chain of M1's blocks of length k + 1 on the genesis block g,
\* the chain the peers extend
RECURSIVE Line(_, _)
Line(g, k) ==
    IF k = 0 THEN <<g>>
    ELSE LET q == Line(g, k - 1)
         IN  Append(q, PeerBlock("M1", <<BT1>>, q[Len(q)].hash, Difficulty))

\* the chains of at most n blocks after g that peers hold or send: the line,
\* or a prefix of it followed by one other block on its tip
PeerPaths(g, n) ==
    UNION {{Append(Line(g, k - 1), b) :
               b \in Children(Line(g, k - 1)[k].hash)} : k \in 1..n}

\* the blocks of those chains
PeerBlocks(g, n) == {q[Len(q)] : q \in PeerPaths(g, n)}

\* a chain of this difficulty accepts b on its parent
ChainValidBlock(b) == is_valid(b) /\ pow_validate(NewProofOfWork(Difficulty), b)

\* the genesis block of the chain under study, constructed at clock reading 1
Genesis0 == create_genesis_block(Difficulty, 1)

BlockInputs == PeerBlocks(Genesis0, MaxChain - 1)

\* candidate chains for replace_chain: the peers' chains; the accepted ones
\* under a genesis block constructed at another time and under a first block
\* that only carries the genesis hash; chains with a block left out; no chain
ChainInputs ==
    LET all  == PeerPaths(Genesis0, MaxChain - 1) \cup {<<Genesis0>>}
        good == {q \in all : \A i \in 2..Len(q) : ChainValidBlock(q[i])}
    IN  all
        \cup {[q EXCEPT ![1] = create_genesis_block(Difficulty, 2)] : q \in good}
        \cup {[q EXCEPT ![1] = [Genesis0 EXCEPT !.miner = "Eve"]] : q \in good}
        \cup {RemoveAt(q, 2) : q \in {r \in all : Len(r) >= 3}}
        \cup {<<>>}

\* the node under study and the remote node: node ids and addresses
LocalId == "n0"
LocalAddr == <<"h0", 1>>
RemoteId == "nR"
RemoteAddr == <<"hR", 1>>

\* the remote node, started, with a chain of the same difficulty constructed
\* at the same clock reading
RemoteNode ==
    [gossip |-> [NewGossipProtocol(RemoteAddr[1], RemoteAddr[2], RemoteId)
                   EXCEPT !.running = TRUE, !.server = <<1>>],
     blockchain |-> NewBlockchain(Difficulty, 1)]

\* other nodes that send datagrams: one more than the peer table holds
NodeNames == <<"n1", "n2", "n3", "n4", "n5">>
SenderIds == {NodeNames[i] : i \in 1..(MAX_PEERS + 1)}

\* the address a node sends from
AddrOf(node_id) == <<node_id, 1>>

\* datagrams as they arrive: the JSON message and the sender's address
HelloFrom(node_id, addr) ==
    [data |-> [type |-> "HELLO", node_id |-> node_id, version |-> VERSION],
     addr |-> addr]

StatusFrom(node_id, height) ==
    [data |-> [type |-> "STATUS", node_id |-> node_id, version |-> VERSION,
               height |-> height],
     addr |-> AddrOf(node_id)]

\* a block request, an empty list of blocks, a transaction, a message of an
\* unknown type and bytes that are no JSON, from the node
OtherInputs(node_id) ==
    {[data |-> [type |-> "GET_BLOCKS", start |-> 0, node_id |-> node_id],
      addr |-> AddrOf(node_id)],
     [data |-> [type |-> "BLOCKS", blocks |-> <<>>, node_id |-> node_id],
      addr |-> AddrOf(node_id)],
     [data |-> [type |-> "NEW_TRANSACTION", transaction |-> tx_dict(BT1),
                node_id |-> node_id],
      addr |-> AddrOf(node_id)],
     [data |-> [type |-> "PING", node_id |-> node_id], addr |-> AddrOf(node_id)],
     [data |-> [invalid_json |-> TRUE], addr |-> AddrOf(node_id)]}

\* the datagrams of the peer-table scenarios: HELLO and STATUS from every
\* node, a HELLO under the first node's id from another address, the STATUS
\* with the height of the chain under study, and the other datagrams from
\* the first node
PeersInputs ==
    {HelloFrom(n, AddrOf(n)) : n \in SenderIds}
      \cup {HelloFrom(NodeNames[1], <<"hX", 1>>)}
      \cup {StatusFrom(n, 1) : n \in SenderIds}
      \cup OtherInputs(NodeNames[1])

(***************************************************************************)
(* The state machine: one Blockchain object and the calls made on it.  A   *)
(* call runs to completion in one step and leaves a record of itself in    *)
(* `last`; the caller then takes the result (Return) and the record is     *)
(* dropped.                                                                *)
(***************************************************************************)
VARIABLES
    difficulty,                 \* Blockchain.difficulty
    unconfirmed_transactions,   \* the mempool, a list
    chain,                      \* the main chain, a list of blocks
    pending_blocks,             \* dict hash -> block, in insertion order
    known_transactions,         \* set of transaction identity hashes
    pow,                        \* the ProofOfWork validator
    now,                        \* the wall clock, time.time()
    tree,                       \* the MerkleTree object under study
    block,                      \* the Block handed to ProofOfWork.mine
    wallet,                     \* the Wallet object under study
    gossip,                     \* the GossipProtocol object of the node
    loop,                       \* the node's event loop: the periodic tasks
                                \* and the open UDP endpoints
    net,                        \* datagrams in flight to or from the remote node
    remote,                     \* the remote node: its GossipProtocol object
                                \* and its Blockchain
    pc,                         \* "idle", or "returned" right after a call
    last                        \* the call that has just returned: its name,
                                \* argument, result, exception, and the
                                \* object before the call

vars == <<difficulty, unconfirmed_transactions, chain, pending_blocks,
          known_transactions, pow, now, tree, block, wallet, gossip, loop, net,
          remote, pc, last>>

\* the Blockchain object in the current state
Self ==
    [difficulty |-> difficulty,
     unconfirmed_transactions |-> unconfirmed_transactions,
     chain |-> chain,
     pending_blocks |-> pending_blocks,
     known_transactions |-> known_transactions,
     pow |-> pow]

\* the object becomes s
Becomes(s) ==
    /\ difficulty' = s.difficulty
    /\ unconfirmed_transactions' = s.unconfirmed_transactions
    /\ chain' = s.chain
    /\ pending_blocks' = s.pending_blocks
    /\ known_transactions' = s.known_transactions
    /\ pow' = s.pow

\* the value of a variable whose object has not been constructed
Absent == [absent |-> TRUE]

NoCall == [op |-> "none", arg |-> <<>>, ret |-> "None", exc |-> None, pre |-> <<>>]

\* a call on the object pre returns
CalledOn(pre, op, arg, ret, exc) ==
    /\ pc = "idle"
    /\ pc' = "returned"
    /\ last' = [op |-> op, arg |-> arg, ret |-> ret, exc |-> exc, pre |-> pre]

Called(op, arg, ret, exc) == CalledOn(Self, op, arg, ret, exc)

Init ==
    /\ now = 1
    /\ difficulty = Difficulty
    /\ unconfirmed_transactions = <<>>
    /\ chain = <<Genesis0>>
    /\ pending_blocks = <<>>
    /\ known_transactions = {}
    /\ pow = NewProofOfWork(Difficulty)
    /\ tree = Absent
    /\ block = Absent
    /\ wallet = Absent
    /\ gossip = NewGossipProtocol(LocalAddr[1], LocalAddr[2], LocalId)
    /\ loop = NewEventLoop
    /\ net = <<>>
    /\ remote = RemoteNode
    /\ pc = "idle"
    /\ last = NoCall

AddTransaction(tx) ==
    LET r == add_transaction(Self, tx)
    IN  /\ Called("add_transaction", tx, r.ret, r.exc)
        /\ Becomes(r.self)
        /\ UNCHANGED <<now, tree, block, wallet,
                   gossip, loop, net, remote>>

MineBlock(miner) ==
    LET r == mine_block(Self, miner, now)
    IN  /\ Called("mine_block", miner, r.ret, r.exc)
        /\ Becomes(r.self)
        /\ UNCHANGED <<now, tree, block, wallet,
                   gossip, loop, net, remote>>

AddBlock(b) ==
    LET r == add_block(Self, b)
    IN  /\ Called("add_block", b, r.ret, None)
        /\ Becomes(r.self)
        /\ UNCHANGED <<now, tree, block, wallet,
                   gossip, loop, net, remote>>

ReplaceChain(c) ==
    LET r == replace_chain(Self, c)
    IN  /\ Called("replace_chain", c, r.ret, None)
        /\ Becomes(r.self)
        /\ UNCHANGED <<now, tree, block, wallet,
                   gossip, loop, net, remote>>

Return ==
    /\ pc = "returned"
    /\ pc' = "idle"
    /\ last' = NoCall
    /\ UNCHANGED <<difficulty, unconfirmed_transactions, chain, pending_blocks,
                   known_transactions, pow, now, tree, block, wallet,
                   gossip, loop, net, remote>>

\* Blockchain.get_balance(address): a query, the object is left alone
GetBalance(address) ==
    /\ Called("get_balance", address, get_balance(Self, address), None)
    /\ UNCHANGED <<difficulty, unconfirmed_transactions, chain, pending_blocks,
                   known_transactions, pow, now, tree, block, wallet,
                   gossip, loop, net, remote>>

\* Blockchain(difficulty): a fresh object takes the place of the one under
\* study, which `last` keeps for comparison
Construct ==
    /\ Called("__init__", difficulty, "None", None)
    /\ Becomes(NewBlockchain(difficulty, now))
    /\ UNCHANGED <<now, tree, block, wallet,
                   gossip, loop, net, remote>>

\* the wall clock advances
Tick ==
    /\ pc = "idle"
    /\ now < MaxTime
    /\ now' = now + 1
    /\ UNCHANGED <<difficulty, unconfirmed_transactions, chain, pending_blocks,
                   known_transactions, pow, tree, block, wallet, pc, last,
                   gossip, loop, net, remote>>

\* the step stays within the bounds: a chain of at most c blocks and at
\* most p pending blocks
Within(c, p) == Len(chain') <= c /\ Len(pending_blocks') <= p

(***************************************************************************)
(* Spec: block acceptance and chain replacement, with the peers' chains of *)
(* up to MaxChain blocks as inputs.                                        *)
(***************************************************************************)
Next ==
    \/ \E tx \in {WT1, BT1} : AddTransaction(tx)
    \/ \E m \in Miners : MineBlock(m)
    \/ \E b \in BlockInputs : AddBlock(b) /\ Within(MaxChain, MaxPending)
    \/ \E c \in ChainInputs : ReplaceChain(c) /\ Within(MaxChain, MaxPending)
    \/ \E a \in Addresses : GetBalance(a)
    \/ Return

Spec == Init /\ [][Next]_vars

(***************************************************************************)
(* SpecMempool: the mempool, mining and construction, with the peers'      *)
(* first blocks on the current genesis block as block inputs.              *)
(***************************************************************************)
NextMempool ==
    \/ \E tx \in TxInputs : AddTransaction(tx)
    \/ \E m \in Miners : MineBlock(m)
    \/ \E b \in Children(chain[1].hash) : AddBlock(b) /\ Within(MaxChain, MaxPending)
    \/ Construct
    \/ Tick
    \/ Return

SpecMempool == Init /\ [][NextMempool]_vars

(***************************************************************************)
(* SpecMerkle: Merkle trees over every list of up to MaxLeaves of three    *)
(* transactions, proofs for leaf and other hashes, and verification of     *)
(* the proofs as returned and with one component changed.                  *)
(***************************************************************************)
BT2 == BlockTx("B", "A", 3, "sigB", 1)
BT3 == BlockTx("A", "C", 1, "sigC", 2)

MerkleTxs == {BT1, BT2, BT3}

\* the lists of transactions a block or a tree is built from
MerkleInputs == UNION {[1..n -> MerkleTxs] : n \in 0..MaxLeaves}

\* Transaction.to_dict for each transaction of the list
Dicts(txs) == [i \in 1..Len(txs) |-> tx_to_dict(txs[i])]

\* a digest that belongs to no transaction and no node
Tampered == hash_data(<<"tampered">>)

\* hashes asked for and substituted: the leaves of the three transactions,
\* the root of the tree and a foreign digest
HashInputs(self) ==
    {hash_data(tx_to_dict(tx)) : tx \in MerkleTxs} \cup {self.root, Tampered}

\* (hash, proof, root) triples handed to verify_proof: for each hash its
\* proof and the root, and these with the hash, the root, one step's
\* sibling hash or one step's position replaced
VerifyInputs(self) ==
    LET asis == {<<h, get_proof(self, h).ret, self.root>> : h \in HashInputs(self)}
    IN  asis
        \cup {<<h, v[2], v[3]>> : h \in HashInputs(self), v \in asis}
        \cup {<<v[1], v[2], r>> : r \in HashInputs(self), v \in asis}
        \cup UNION {{<<v[1], [v[2] EXCEPT ![k].hash = x], v[3]>> :
                        k \in 1..Len(v[2]), x \in HashInputs(self)} : v \in asis}
        \cup UNION {{<<v[1], [v[2] EXCEPT ![k].position = q], v[3]>> :
                        k \in 1..Len(v[2]), q \in {"left", "right", "RIGHT"}} :
                      v \in asis}

\* MerkleTree(dicts of txs)
BuildTree(txs) ==
    /\ CalledOn(tree, "MerkleTree", txs, "None", None)
    /\ tree' = NewMerkleTree(Dicts(txs))
    /\ UNCHANGED <<difficulty, unconfirmed_transactions, chain, pending_blocks,
                   known_transactions, pow, now, block, wallet,
                   gossip, loop, net, remote>>

\* tree.get_proof(h)
GetProof(h) ==
    /\ tree # Absent
    /\ LET r == get_proof(tree, h)
       IN  /\ CalledOn(tree, "get_proof", h, r.ret, None)
           /\ tree' = r.self
    /\ UNCHANGED <<difficulty, unconfirmed_transactions, chain, pending_blocks,
                   known_transactions, pow, now, block, wallet,
                   gossip, loop, net, remote>>

\* MerkleTree.verify_proof(h, proof, root), a static method
VerifyProof(v) ==
    /\ tree # Absent
    /\ CalledOn(tree, "verify_proof", v, verify_proof(v[1], v[2], v[3]), None)
    /\ UNCHANGED <<difficulty, unconfirmed_transactions, chain, pending_blocks,
                   known_transactions, pow, now, tree, block, wallet,
                   gossip, loop, net, remote>>

NextMerkle ==
    \/ \E txs \in MerkleInputs : BuildTree(txs)
    \/ tree # Absent /\ \E h \in HashInputs(tree) : GetProof(h)
    \/ tree # Absent /\ \E v \in VerifyInputs(tree) : VerifyProof(v)
    \/ Return

SpecMerkle == Init /\ [][NextMerkle]_vars

(***************************************************************************)
(* SpecPow: validators of several difficulties, candidate blocks handed to *)
(* ProofOfWork.mine, and retargeting over runs of recent blocks.           *)
(***************************************************************************)
\* difficulties a validator is constructed with
PowDifficulties == 0..(Difficulty + 1)

\* target block times, in clock units
TargetTimes == {2, 4}

\* a run of n blocks whose timestamps start at 1 and advance by step, the
\* last one by step + extra
RECURSIVE Run(_, _, _)
Run(n, step, extra) ==
    IF n = 0 THEN <<>>
    ELSE LET t == 1 + (n - 1) * step + extra
             previous == Run(n - 1, step, 0)
         IN  Append(previous,
                    NewBlock("M1", <<>>,
                             IF n = 1 THEN ZeroHash ELSE previous[n - 1].hash,
                             t, 0, 0, t))

\* runs just below, at and above the least length, fast, on target and slow
RecentInputs ==
    {Run(n, step, extra) : n \in (MinRecent - 1)..(MinRecent + 1),
                           step \in 0..MaxStep, extra \in 0..2}

\* ProofOfWork(d)
NewPow(d) ==
    /\ CalledOn(pow, "ProofOfWork", d, "None", None)
    /\ pow' = NewProofOfWork(d)
    /\ UNCHANGED <<difficulty, unconfirmed_transactions, chain, pending_blocks,
                   known_transactions, now, tree, block, wallet,
                   gossip, loop, net, remote>>

\* Block(miner, transactions, previous_hash, difficulty): a candidate as
\* mine_block builds it
NewCandidate(miner, txs) ==
    /\ CalledOn(block, "Block", <<miner, txs>>, "None", None)
    /\ block' = NewBlock(miner, txs, chain[1].hash, 0, 0, pow.difficulty, now)
    /\ UNCHANGED <<difficulty, unconfirmed_transactions, chain, pending_blocks,
                   known_transactions, pow, now, tree, wallet,
                   gossip, loop, net, remote>>

\* pow.mine(block)
Mine ==
    /\ block # Absent
    /\ LET m == pow_mine(pow, block)
       IN  /\ CalledOn(block, "mine", pow, m.ok, m.exc)
           /\ block' = m.block
    /\ UNCHANGED <<difficulty, unconfirmed_transactions, chain, pending_blocks,
                   known_transactions, pow, now, tree, wallet,
                   gossip, loop, net, remote>>

\* pow.adjust_difficulty(recent_blocks, target_block_time)
AdjustDifficulty(recent_blocks, target_block_time) ==
    /\ CalledOn(pow, "adjust_difficulty", <<recent_blocks, target_block_time>>,
                adjust_difficulty(pow, recent_blocks, target_block_time), None)
    /\ UNCHANGED <<difficulty, unconfirmed_transactions, chain, pending_blocks,
                   known_transactions, pow, now, tree, block, wallet,
                   gossip, loop, net, remote>>

NextPow ==
    \/ \E d \in PowDifficulties : NewPow(d)
    \/ \E m \in Miners, txs \in {<<>>, <<BT1>>} : NewCandidate(m, txs)
    \/ Mine
    \/ \E r \in RecentInputs, t \in TargetTimes : AdjustDifficulty(r, t)
    \/ Tick
    \/ Return

SpecPow == Init /\ [][NextPow]_vars

(***************************************************************************)
(* SpecWallet: wallets for every key, address validation and transactions  *)
(* to derived and other addresses.                                         *)
(***************************************************************************)
\* a key pair, known by a number: one for every value of the key hash
Keys == 0..(BytePower(HashBytes) - 1)

\* the addresses wallets derive
DerivedAddresses == {generate_address(k) : k \in Keys}

\* addresses handed to validation: the derived ones, encodings with another
\* version byte, a string with a character outside the alphabet, and ""
AddressInputs ==
    DerivedAddresses
      \cup {EncodeAddress(<<v>> \o Hash160(k)) : v \in 1..(ByteBase - 1), k \in Keys}
      \cup {<<"1", "0">>, <<>>}

\* Wallet() with a freshly generated key
CreateWallet(key) ==
    /\ CalledOn(wallet, "Wallet", key, "None", None)
    /\ wallet' = NewWallet(key)
    /\ UNCHANGED <<difficulty, unconfirmed_transactions, chain, pending_blocks,
                   known_transactions, pow, now, tree, block,
                   gossip, loop, net, remote>>

\* Wallet._is_valid_address(address), a static method
IsValidAddress(address) ==
    /\ CalledOn(wallet, "_is_valid_address", address, is_valid_address(address), None)
    /\ UNCHANGED <<difficulty, unconfirmed_transactions, chain, pending_blocks,
                   known_transactions, pow, now, tree, block, wallet,
                   gossip, loop, net, remote>>

\* wallet.create_transaction(recipient, amount) with the default fee, which
\* the model counts as 1
CreateTransaction(recipient, amount) ==
    /\ wallet # Absent
    /\ LET r == create_transaction(wallet, recipient, amount, 1, now)
       IN  /\ CalledOn(wallet, "create_transaction", <<recipient, amount>>,
                       r.ret, r.exc)
           /\ wallet' = r.self
    /\ wallet'.nonce <= MaxWalletNonce
    /\ UNCHANGED <<difficulty, unconfirmed_transactions, chain, pending_blocks,
                   known_transactions, pow, now, tree, block,
                   gossip, loop, net, remote>>

NextWallet ==
    \/ \E k \in Keys : CreateWallet(k)
    \/ \E a \in AddressInputs : IsValidAddress(a)
    \/ \E a \in AddressInputs, amount \in {0, 5} : CreateTransaction(a, amount)
    \/ Return

SpecWallet == Init /\ [][NextWallet]_vars

(***************************************************************************)
(* SpecDrain: blocks arriving in any order.  The inputs are the peers'     *)
(* line of DrainLen blocks and, on each parent, a competing block and a    *)
(* block that declares difficulty 0.                                       *)
(***************************************************************************)
DrainInputs ==
    UNION {{PeerBlock("M1", <<BT1>>, Line(Genesis0, k)[k + 1].hash, Difficulty),
            PeerBlock("M2", <<>>, Line(Genesis0, k)[k + 1].hash, Difficulty),
            PeerBlock("M2", <<>>, Line(Genesis0, k)[k + 1].hash, 0)} :
              k \in 0..(DrainLen - 1)}

NextDrain ==
    \/ \E b \in DrainInputs : AddBlock(b) /\ Within(DrainLen + 1, DrainLen)
    \/ Return

SpecDrain == Init /\ [][NextDrain]_vars

(***************************************************************************)
(* The gossip component of the node: datagrams arrive on the open endpoint *)
(* and are handled one at a time; the periodic tasks run when their sleep  *)
(* is over, and the clock does not advance past a task that is due.        *)
(***************************************************************************)
\* the clock of the gossip scenarios reads 1..MaxClock: long enough for a
\* peer to outlive the timeout and a cleanup interval
MaxClock == PEER_TIMEOUT + CLEANUP_INTERVAL + 2
\* the most endpoints start() creates
MaxStarts == 2

\* the objects a handler or a task works on
Node == [gossip |-> gossip, blockchain |-> Self, loop |-> loop]

\* the datagrams among `sent` that go to the remote node
ToRemote(sent) ==
    LET Goes(d) == d.addr = RemoteAddr
        Packet(d) == [message |-> d.message, addr |-> d.addr, from |-> LocalAddr]
    IN  [i \in 1..Len(SelectSeq(sent, Goes)) |-> Packet(SelectSeq(sent, Goes)[i])]

\* datagram_received and the handle_message task it creates
Receive(data, addr) ==
    /\ loop.endpoints # {}
    /\ LET r == handle_message(gossip, Self, CanSend(gossip, loop), data, addr, now)
       IN  /\ CalledOn(Node, "handle_message", [data |-> data, addr |-> addr],
                       [sent |-> r.sent, offered |-> r.offered], r.exc)
           /\ gossip' = r.self
           /\ Becomes(r.blockchain)
           /\ net' = net \o ToRemote(r.sent)
    /\ UNCHANGED <<now, tree, block, wallet, loop, remote>>

\* await gossip.start()
Start ==
    /\ loop.created < MaxStarts
    /\ LET r == start(gossip, loop, now)
       IN  /\ CalledOn(Node, "start", loop, "None", r.exc)
           /\ gossip' = r.self
           /\ loop' = r.loop
    /\ UNCHANGED <<difficulty, unconfirmed_transactions, chain, pending_blocks,
                   known_transactions, pow, now, tree, block, wallet, net, remote>>

\* await gossip.stop()
Stop ==
    /\ LET r == stop(gossip, loop)
       IN  /\ CalledOn(Node, "stop", loop, "None", None)
           /\ gossip' = r.self
           /\ loop' = r.loop
    /\ UNCHANGED <<difficulty, unconfirmed_transactions, chain, pending_blocks,
                   known_transactions, pow, now, tree, block, wallet, net, remote>>

\* task i of the loop is a task of this kind whose sleep is over
Due(i, kind) ==
    /\ i \in 1..Len(loop.tasks)
    /\ loop.tasks[i].kind = kind
    /\ loop.tasks[i].wake <= now

\* an iteration of _cleanup_peers in task i: the task ends when running is
\* false, or else makes its pass and sleeps
CleanupPeers(i) ==
    /\ Due(i, "cleanup")
    /\ IF gossip.running
       THEN /\ CalledOn(Node, "_cleanup_peers", now, "sleep", None)
            /\ gossip' = cleanup_pass(gossip, now)
            /\ loop' = [loop EXCEPT !.tasks[i].wake = now + CLEANUP_INTERVAL]
       ELSE /\ CalledOn(Node, "_cleanup_peers", now, "exit", None)
            /\ gossip' = gossip
            /\ loop' = [loop EXCEPT !.tasks = RemoveAt(@, i)]
    /\ UNCHANGED <<difficulty, unconfirmed_transactions, chain, pending_blocks,
                   known_transactions, pow, now, tree, block, wallet, net, remote>>

\* an iteration of _periodic_gossip in task i
PeriodicGossip(i) ==
    /\ Due(i, "gossip")
    /\ IF gossip.running
       THEN /\ CalledOn(Node, "_periodic_gossip", now,
                        [sent |-> gossip_pass(gossip, Self, CanSend(gossip, loop)),
                         offered |-> <<>>], None)
            /\ loop' = [loop EXCEPT !.tasks[i].wake = now + GOSSIP_INTERVAL]
            /\ net' = net \o ToRemote(gossip_pass(gossip, Self,
                                                  CanSend(gossip, loop)))
       ELSE /\ CalledOn(Node, "_periodic_gossip", now,
                        [sent |-> <<>>, offered |-> <<>>], "exit")
            /\ loop' = [loop EXCEPT !.tasks = RemoveAt(@, i)]
            /\ net' = net
    /\ UNCHANGED <<difficulty, unconfirmed_transactions, chain, pending_blocks,
                   known_transactions, pow, now, tree, block, wallet, gossip,
                   remote>>

\* the clock advances by one unit while no task is due
Elapse ==
    /\ pc = "idle"
    /\ now < MaxClock
    /\ \A i \in 1..Len(loop.tasks) : loop.tasks[i].wake > now
    /\ now' = now + 1
    /\ UNCHANGED <<difficulty, unconfirmed_transactions, chain, pending_blocks,
                   known_transactions, pow, tree, block, wallet, gossip, loop,
                   net, remote, pc, last>>

(***************************************************************************)
(* SpecPeers: the peer table of a started node, with HELLO and STATUS from *)
(* more nodes than the table holds, and the cleanup passes as time goes.   *)
(***************************************************************************)
NextPeers ==
    \/ \E d \in PeersInputs : Receive(d.data, d.addr)
    \/ Start
    \/ \E i \in 1..Len(loop.tasks) : CleanupPeers(i)
    \/ \E i \in 1..Len(loop.tasks) : PeriodicGossip(i)
    \/ Elapse
    \/ Return

SpecPeers == Init /\ [][NextPeers]_vars

(***************************************************************************)
(* SpecLifecycle: start and stop in any order, the periodic tasks they     *)
(* leave in the loop, and one node that introduces itself.                 *)
(***************************************************************************)
NextLifecycle ==
    \/ Receive(HelloFrom(NodeNames[1], AddrOf(NodeNames[1])).data, AddrOf(NodeNames[1]))
    \/ Start
    \/ Stop
    \/ \E i \in 1..Len(loop.tasks) : CleanupPeers(i)
    \/ \E i \in 1..Len(loop.tasks) : PeriodicGossip(i)
    \/ Elapse
    \/ Return

SpecLifecycle == Init /\ [][NextLifecycle]_vars

(***************************************************************************)
(* SpecStatus: STATUS from a registered and from an unregistered node,     *)
(* with heights below, at and above the length of the chain, which grows   *)
(* by the blocks of the peers' line.                                       *)
(***************************************************************************)
\* a node that never introduces itself
Stranger == "n9"

\* STATUS datagrams with every height up to one more than the longest chain,
\* and one that carries no height
StatusInputs ==
    {StatusFrom(n, h) : n \in {NodeNames[1], Stranger}, h \in 1..(MaxChain + 1)}
      \cup {[data |-> [type |-> "STATUS", node_id |-> NodeNames[1],
                       version |-> VERSION],
             addr |-> AddrOf(NodeNames[1])]}

\* BLOCKS datagrams with one block of the peers' line each
LineInputs ==
    {[data |-> [type |-> "BLOCKS",
                blocks |-> <<block_to_dict(Line(Genesis0, k)[k + 1])>>,
                node_id |-> NodeNames[1]],
      addr |-> AddrOf(NodeNames[1])] : k \in 1..(MaxChain - 1)}

NextStatus ==
    \/ \E n \in SenderIds : Receive(HelloFrom(n, AddrOf(n)).data, AddrOf(n))
    \/ \E d \in StatusInputs : Receive(d.data, d.addr)
    \/ \E d \in LineInputs : Receive(d.data, d.addr) /\ Within(MaxChain, MaxPending)
    \/ Start
    \/ Tick
    \/ Return

SpecStatus == Init /\ [][NextStatus]_vars

(***************************************************************************)
(* SpecRelay: transactions and lists of blocks arriving from a node, with  *)
(* blocks the chain accepts, queues and refuses and dicts that do not      *)
(* deserialize.                                                            *)
(***************************************************************************)
\* the most blocks of one BLOCKS message
MaxBlocks == 2

\* a dict without one of its keys
WithoutKey(d, key) == [k \in DOMAIN d \ {key} |-> d[k]]

\* serialized transactions: a payment as block.py and as wallet.py serialize
\* it, one of amount 0, and one without an amount
TxDicts ==
    {tx_dict(BT1), tx_dict(WT1), tx_dict([BT1 EXCEPT !.amount = 0]),
     WithoutKey(tx_dict(BT1), "amount")}

\* serialized blocks: the first two blocks of the peers' line, a competing
\* first block, the first block unmined, the first block without its nonce
\* key, and a block that holds a wallet transaction
BlockDicts ==
    {block_to_dict(Line(Genesis0, 1)[2]),
     block_to_dict(Line(Genesis0, 2)[3]),
     block_to_dict(PeerBlock("M2", <<>>, Genesis0.hash, Difficulty)),
     block_to_dict(Unmined(Line(Genesis0, 1)[2])),
     WithoutKey(block_to_dict(Line(Genesis0, 1)[2]), "nonce"),
     block_to_dict(PeerBlock("M2", <<WT1>>, Genesis0.hash, Difficulty))}

RelayInputs ==
    {[data |-> [type |-> "NEW_TRANSACTION", transaction |-> d,
                node_id |-> NodeNames[1]],
      addr |-> AddrOf(NodeNames[1])] : d \in TxDicts}
      \cup {[data |-> [type |-> "NEW_TRANSACTION", node_id |-> NodeNames[1]],
             addr |-> AddrOf(NodeNames[1])]}
      \cup {[data |-> [type |-> "BLOCKS", blocks |-> l, node_id |-> NodeNames[1]],
             addr |-> AddrOf(NodeNames[1])] :
               l \in UNION {[1..n -> BlockDicts] : n \in 0..MaxBlocks}}

NextRelay ==
    \/ \E n \in SenderIds : Receive(HelloFrom(n, AddrOf(n)).data, AddrOf(n))
    \/ \E d \in RelayInputs : Receive(d.data, d.addr) /\ Within(MaxChain, MaxPending)
    \/ Start
    \/ Return

SpecRelay == Init /\ [][NextRelay]_vars

(***************************************************************************)
(* SpecSync: the node under study, started, and the remote node exchange   *)
(* STATUS, GET_BLOCKS and BLOCKS over a network that delivers every        *)
(* datagram in the order sent.  The remote node's chain grows along the    *)
(* peers' line; the node under study also receives competing blocks from   *)
(* another node.                                                           *)
(***************************************************************************)
\* the most datagrams in flight
MaxNet == 2

\* the datagrams among `sent` that the remote node sends to the node under
\* study
FromRemote(sent) ==
    LET Goes(d) == d.addr = LocalAddr
        Packet(d) == [message |-> d.message, addr |-> d.addr, from |-> RemoteAddr]
    IN  [i \in 1..Len(SelectSeq(sent, Goes)) |-> Packet(SelectSeq(sent, Goes)[i])]

\* blocks of another miner: a competing first block and a competing block
\* on the first block of the line
RivalBlocks ==
    {PeerBlock("M2", <<>>, Genesis0.hash, Difficulty),
     PeerBlock("M2", <<>>, Line(Genesis0, 1)[2].hash, Difficulty)}

\* BLOCKS datagrams of another node with one of these blocks each
RivalInputs ==
    {[data |-> [type |-> "BLOCKS", blocks |-> <<block_to_dict(b)>>,
                node_id |-> NodeNames[1]],
      addr |-> AddrOf(NodeNames[1])] : b \in RivalBlocks}

\* the node under study after start()
Started == start(NewGossipProtocol(LocalAddr[1], LocalAddr[2], LocalId),
                 NewEventLoop, 1)

InitSync ==
    /\ now = 1
    /\ difficulty = Difficulty
    /\ unconfirmed_transactions = <<>>
    /\ chain = <<Genesis0>>
    /\ pending_blocks = <<>>
    /\ known_transactions = {}
    /\ pow = NewProofOfWork(Difficulty)
    /\ tree = Absent
    /\ block = Absent
    /\ wallet = Absent
    /\ gossip = Started.self
    /\ loop = Started.loop
    /\ net = <<>>
    /\ remote = RemoteNode
    /\ pc = "idle"
    /\ last = NoCall

\* the oldest datagram in flight is for the address
HeadFor(addr) == net # <<>> /\ net[1].addr = addr

\* handle_message at the node under study, run to completion; no record of
\* the call is kept
LocalHandle(data, addr, rest) ==
    /\ pc = "idle"
    /\ loop.endpoints # {}
    /\ \E r \in {handle_message(gossip, Self, CanSend(gossip, loop), data, addr, now)} :
          /\ gossip' = r.self
          /\ Becomes(r.blockchain)
          /\ net' = rest \o ToRemote(r.sent)
    /\ UNCHANGED <<now, tree, block, wallet, loop, remote, pc, last>>

\* datagram_received at the node under study for the oldest datagram in
\* flight
Deliver ==
    /\ HeadFor(LocalAddr)
    /\ LocalHandle(net[1].message, net[1].from, DropFirst(net, 1))

\* the remote node is introduced to the node under study
Hello ==
    /\ ~DictHas(gossip.peers, RemoteId)
    /\ LocalHandle(HelloFrom(RemoteId, RemoteAddr).data, RemoteAddr, net)

\* a block of the other miner reaches the node under study
Rival(d) ==
    /\ LocalHandle(d.data, d.addr, net)
    /\ Within(MaxChain, MaxPending)

\* handle_message at the remote node
RemoteHandle(data, addr, rest) ==
    /\ pc = "idle"
    /\ \E r \in {handle_message(remote.gossip, remote.blockchain, TRUE,
                                  data, addr, now)} :
          /\ remote' = [gossip |-> r.self, blockchain |-> r.blockchain]
          /\ net' = rest \o FromRemote(r.sent)
    /\ UNCHANGED <<difficulty, unconfirmed_transactions, chain, pending_blocks,
                   known_transactions, pow, now, tree, block, wallet, gossip,
                   loop, pc, last>>

\* datagram_received at the remote node for the oldest datagram in flight
RemoteDeliver ==
    /\ HeadFor(RemoteAddr)
    /\ RemoteHandle(net[1].message, net[1].from, DropFirst(net, 1))

\* the node under study is introduced to the remote node
RemoteHello ==
    /\ ~DictHas(remote.gossip.peers, LocalId)
    /\ RemoteHandle(HelloFrom(LocalId, LocalAddr).data, LocalAddr, net)

\* an iteration of _periodic_gossip at the remote node
RemoteStatus ==
    /\ pc = "idle"
    /\ Len(net) < MaxNet
    /\ gossip_pass(remote.gossip, remote.blockchain, TRUE) # <<>>
    /\ net' = net \o FromRemote(gossip_pass(remote.gossip, remote.blockchain, TRUE))
    /\ UNCHANGED <<difficulty, unconfirmed_transactions, chain, pending_blocks,
                   known_transactions, pow, now, tree, block, wallet, gossip,
                   loop, remote, pc, last>>

\* the remote node accepts the next block of the peers' line
RemoteAddBlock ==
    /\ pc = "idle"
    /\ Len(remote.blockchain.chain) < MaxChain
    /\ LET k == Len(remote.blockchain.chain)
       IN  remote' = [remote EXCEPT !.blockchain =
                         add_block(@, Line(Genesis0, k)[k + 1]).self]
    /\ UNCHANGED <<difficulty, unconfirmed_transactions, chain, pending_blocks,
                   known_transactions, pow, now, tree, block, wallet, gossip,
                   loop, net, pc, last>>

NextSync ==
    \/ Hello
    \/ RemoteHello
    \/ \E d \in RivalInputs : Rival(d)
    \/ RemoteAddBlock
    \/ RemoteStatus
    \/ Deliver
    \/ RemoteDeliver

SpecSync == InitSync /\ [][NextSync]_vars

\* a Deliver step: the oldest datagram, one for the node under study,
\* leaves the queue, and at most the reply to it joins the queue
Delivered ==
    /\ HeadFor(LocalAddr)
    /\ Len(net') <= Len(net)
    /\ DropFirst(net, 1) = TakeFirst(net', Len(net) - 1)

\* no datagram is lost or held back for ever, and the remote node's
\* periodic task keeps running.  The condition on Deliver is strong
\* fairness written out: Deliver is enabled exactly when the oldest
\* datagram is for the node under study.
SpecSyncFair ==
    /\ SpecSync
    /\ (<>[]~HeadFor(LocalAddr)) \/ ([]<><<Delivered>>_net)
    /\ SF_vars(RemoteDeliver)
    /\ SF_vars(RemoteStatus)

(***************************************************************************)
(* Properties of the chain state machine.                                  *)
(***************************************************************************)
Returned(op) == pc = "returned" /\ last.op = op

\* C1: in every reachable state every main-chain block after the genesis
\* block has a stored hash equal to its recomputed hash, a hash that starts
\* with `difficulty` zeros, and a previous_hash equal to the hash of the block
\* before it; and verify_chain() returns true.
C1_ChainValid ==
    /\ \A i \in 2..Len(chain) :
          /\ chain[i].hash = calculate_hash(chain[i])
          /\ StartsWithZeros(chain[i].hash, difficulty)
          /\ chain[i].previous_hash = chain[i - 1].hash
    /\ verify_chain(Self)

\* a chain of full length reached by add_block, and one by replace_chain
C1_Witness ==
    /\ Returned("add_block") /\ last.ret = "True"
    /\ Len(chain) = MaxChain
    /\ Len(last.pre.chain) < Len(chain)

\* the conditions (a), (b), (c) of chain replacement, for the object `self`
\* before the call and the candidate c
ReplaceCondition(self, c) ==
    /\ c # <<>>
    /\ c[1].hash = self.chain[1].hash
    /\ \A i \in 2..Len(c) :
          /\ is_valid(c[i])
          /\ c[i].previous_hash = c[i - 1].hash
          /\ c[i].hash = calculate_hash(c[i])
          /\ StartsWithZeros(c[i].hash, self.difficulty)
    /\ Len(c) > Len(self.chain)

\* C3: replace_chain(c) returns true and installs c as the main chain if and
\* only if c is non-empty with the current genesis hash, every later block of
\* c passes integrity, link and proof of work, and c is strictly longer than
\* the current chain; otherwise it returns false.
C3_ReplaceIff ==
    Returned("replace_chain") =>
        /\ (last.ret = "True") <=> ReplaceCondition(last.pre, last.arg)
        /\ (last.ret = "True") => chain = last.arg
        /\ last.ret \in {"True", "False"}
        /\ Len(last.arg) <= Len(last.pre.chain) => last.ret = "False"

\* a longer valid candidate was installed over a chain with blocks of its own
C3_Witness ==
    /\ Returned("replace_chain") /\ last.ret = "True"
    /\ Len(last.pre.chain) >= 2
    /\ chain = last.arg
    /\ last.pre.chain[2] # chain[2]

\* a valid candidate of equal length was refused
C3_WitnessEqualLength ==
    /\ Returned("replace_chain") /\ last.ret = "False"
    /\ validate_chain(last.pre, last.arg)
    /\ Len(last.arg) = Len(last.pre.chain)
    /\ last.arg # last.pre.chain

\* C4: replace_chain changes neither the mempool nor the known-transaction
\* set nor the pending set; on rejection the main chain is unchanged too, and
\* on acceptance the main chain is the candidate.
C4_ReplaceFrame ==
    Returned("replace_chain") =>
        /\ unconfirmed_transactions = last.pre.unconfirmed_transactions
        /\ known_transactions = last.pre.known_transactions
        /\ pending_blocks = last.pre.pending_blocks
        /\ last.ret = "False" => chain = last.pre.chain
        /\ last.ret = "True" => chain = last.arg

\* a replacement was accepted while the mempool held a transaction and the
\* pending set held a block that links to the new tip
C4_Witness ==
    /\ Returned("replace_chain") /\ last.ret = "True"
    /\ unconfirmed_transactions # <<>>
    /\ \E i \in 1..Len(pending_blocks) :
          /\ pending_blocks[i].v.previous_hash = chain[Len(chain)].hash
          /\ ChainValidBlock(pending_blocks[i].v)

\* C9: add_block of a block that passes the integrity check and whose
\* previous_hash is not the tip hash stores it in the pending set under its
\* own hash, returns false, and leaves main chain and mempool unchanged.
C9_Disconnected ==
    (/\ Returned("add_block")
     /\ is_valid(last.arg)
     /\ last.arg.previous_hash # last_block(last.pre).hash) =>
        /\ last.ret = "False"
        /\ \E i \in 1..Len(pending_blocks) :
              pending_blocks[i] = [k |-> last.arg.hash, v |-> last.arg]
        /\ \A i \in 1..Len(pending_blocks) :
              pending_blocks[i].v = last.arg => pending_blocks[i].k = last.arg.hash
        /\ chain = last.pre.chain
        /\ unconfirmed_transactions = last.pre.unconfirmed_transactions

\* a block arrived before its parent and is a new entry of the pending set
C9_Witness ==
    /\ Returned("add_block")
    /\ is_valid(last.arg)
    /\ last.arg.previous_hash # last_block(last.pre).hash
    /\ ~DictHas(last.pre.pending_blocks, last.arg.hash)
    /\ \A i \in 1..Len(chain) : chain[i].hash # last.arg.previous_hash

\* the block fails validation: integrity, or proof of work on the tip
FailsValidation(self, b) ==
    \/ b.hash # calculate_hash(b)
    \/ ~StartsWithZeros(b.hash, b.difficulty)
    \/ \E i \in 1..Len(b.transactions) : ~IsBlockTransaction(b.transactions[i])
    \/ /\ b.previous_hash = last_block(self).hash
       /\ ~pow_validate(self.pow, b)

\* C10: add_block of a block that fails validation returns false and drops
\* the block: main chain, pending set and mempool are unchanged.
C10_Dropped ==
    (Returned("add_block") /\ FailsValidation(last.pre, last.arg)) =>
        /\ last.ret = "False"
        /\ chain = last.pre.chain
        /\ pending_blocks = last.pre.pending_blocks
        /\ unconfirmed_transactions = last.pre.unconfirmed_transactions

\* a block that passes the integrity check and links to the tip was dropped
\* because its hash misses the chain's target
C10_Witness ==
    /\ Returned("add_block")
    /\ is_valid(last.arg)
    /\ last.arg.previous_hash = last_block(last.pre).hash
    /\ ~pow_validate(last.pre.pow, last.arg)
    /\ pending_blocks # <<>>

(***************************************************************************)
(* C2: pending drain                                                       *)
(***************************************************************************)
\* the values of a pending set
PendingBlocks(d) == {d[i].v : i \in 1..Len(d)}

\* c carries b1, b2, b3 at consecutive positions right after the blocks of old
LandsAfter(old, c, b1, b2, b3) ==
    /\ Len(c) >= Len(old) + 3
    /\ TakeFirst(c, Len(old)) = old
    /\ c[Len(old) + 1] = b1
    /\ c[Len(old) + 2] = b2
    /\ c[Len(old) + 3] = b3

\* a block that add_block put into the pending set left the chain as it was
PendingKeepsChain ==
    (Returned("add_block") /\ last.arg \in PendingBlocks(pending_blocks))
        => chain = last.pre.chain

\* C2 as stated: B_{k+1} and B_{k+2}, valid and linked, wait in the pending
\* set and the chain does not grow while they do; once add_block(B_k) for a
\* valid B_k on the tip has returned, the chain continues with B_k, B_{k+1},
\* B_{k+2} in this order and none of the three is pending.
C2_DrainAny ==
    /\ PendingKeepsChain
    /\ (Returned("add_block") /\ ChainValidBlock(last.arg)
          /\ last.arg.previous_hash = last_block(last.pre).hash)
        => \A b1, b2 \in PendingBlocks(last.pre.pending_blocks) :
              (/\ ChainValidBlock(b1) /\ ChainValidBlock(b2)
               /\ b1.previous_hash = last.arg.hash
               /\ b2.previous_hash = b1.hash)
              => /\ LandsAfter(last.pre.chain, chain, last.arg, b1, b2)
                 /\ {last.arg, b1, b2} \cap PendingBlocks(pending_blocks) = {}

\* the position of block b in the pending set d, in order of first receipt
Position(d, b) == CHOOSE i \in 1..Len(d) : d[i].v = b

\* among the pending blocks that pass the chain's checks, b1 is the first
\* received that links to bk and b2 the first received that links to b1
FirstInLine(self, bk, b1, b2) ==
    \A q \in PendingBlocks(self.pending_blocks) \ {b1, b2} :
        ChainValidBlock(q) =>
            /\ q.previous_hash = bk.hash
                 => Position(self.pending_blocks, q) > Position(self.pending_blocks, b1)
            /\ q.previous_hash = b1.hash
                 => Position(self.pending_blocks, q) > Position(self.pending_blocks, b2)

\* C2, amended: the same, provided no other pending block that passes the
\* validity and proof-of-work checks and links to B_k was received before
\* B_{k+1}, and none that links to B_{k+1} was received before B_{k+2}.
C2_DrainLine ==
    /\ PendingKeepsChain
    /\ (Returned("add_block") /\ ChainValidBlock(last.arg)
          /\ last.arg.previous_hash = last_block(last.pre).hash)
        => \A b1, b2 \in PendingBlocks(last.pre.pending_blocks) :
              (/\ ChainValidBlock(b1) /\ ChainValidBlock(b2)
               /\ b1.previous_hash = last.arg.hash
               /\ b2.previous_hash = b1.hash
               /\ FirstInLine(last.pre, last.arg, b1, b2))
              => /\ LandsAfter(last.pre.chain, chain, last.arg, b1, b2)
                 /\ {last.arg, b1, b2} \cap PendingBlocks(pending_blocks) = {}

\* add_block(B_k) has returned with B_{k+2} received before B_{k+1} and a
\* competing block on B_k received last: the line is on the chain and the
\* competing block alone is pending
C2_Witness ==
    /\ Returned("add_block")
    /\ ChainValidBlock(last.arg)
    /\ last.arg.previous_hash = last_block(last.pre).hash
    /\ \E i, j, n \in 1..Len(last.pre.pending_blocks) :
          LET b1 == last.pre.pending_blocks[i].v
              b2 == last.pre.pending_blocks[j].v
              q  == last.pre.pending_blocks[n].v
          IN  /\ j < i /\ i < n
              /\ ChainValidBlock(b1) /\ ChainValidBlock(b2) /\ ChainValidBlock(q)
              /\ b1.previous_hash = last.arg.hash
              /\ b2.previous_hash = b1.hash
              /\ q.previous_hash = last.arg.hash
              /\ LandsAfter(last.pre.chain, chain, last.arg, b1, b2)
              /\ PendingBlocks(pending_blocks) = {q}

\* the same with a block of declared difficulty 0 on B_k received first
C2_WitnessFailedRival ==
    /\ Returned("add_block")
    /\ ChainValidBlock(last.arg)
    /\ last.arg.previous_hash = last_block(last.pre).hash
    /\ \E i, j, n \in 1..Len(last.pre.pending_blocks) :
          LET b1 == last.pre.pending_blocks[i].v
              b2 == last.pre.pending_blocks[j].v
              q  == last.pre.pending_blocks[n].v
          IN  /\ n < i /\ n < j
              /\ ChainValidBlock(b1) /\ ChainValidBlock(b2) /\ ~ChainValidBlock(q)
              /\ b1.previous_hash = last.arg.hash
              /\ b2.previous_hash = b1.hash
              /\ q.previous_hash = last.arg.hash
              /\ LandsAfter(last.pre.chain, chain, last.arg, b1, b2)
              /\ PendingBlocks(pending_blocks) = {q}

(***************************************************************************)
(* C5: genesis identity                                                    *)
(***************************************************************************)
\* C5: a chain freshly instantiated with the difficulty of an earlier one
\* has the same chain[0].hash, whatever the clock reads, and its genesis
\* block has previous_hash of sixty-four zeros and timestamp 0.
C5_GenesisIdentity ==
    (Returned("__init__") /\ difficulty = last.pre.difficulty)
        => /\ chain[1].hash = last.pre.chain[1].hash
           /\ chain[1].previous_hash = ZeroHash
           /\ chain[1].timestamp = 0

(***************************************************************************)
(* C6: mempool de-duplication                                              *)
(***************************************************************************)
\* C6: add_transaction of a transaction whose identity hash is in the known
\* set returns False and leaves the mempool and the known set as they were;
\* hence no two mempool entries share an identity hash, and every entry's
\* identity hash is known.
C6_Dedup ==
    /\ (Returned("add_transaction") /\ HasCalculateHash(last.arg)
          /\ tx_calculate_hash(last.arg) \in last.pre.known_transactions)
        => /\ last.ret = "False"
           /\ last.exc = None
           /\ unconfirmed_transactions = last.pre.unconfirmed_transactions
           /\ known_transactions = last.pre.known_transactions
    /\ \A i, j \in 1..Len(unconfirmed_transactions) :
          tx_calculate_hash(unconfirmed_transactions[i])
            = tx_calculate_hash(unconfirmed_transactions[j]) => i = j
    /\ \A i \in 1..Len(unconfirmed_transactions) :
          tx_calculate_hash(unconfirmed_transactions[i]) \in known_transactions

\* a second add_transaction of a mempool entry has been refused
C6_Witness ==
    /\ Returned("add_transaction")
    /\ last.arg \in Range(last.pre.unconfirmed_transactions)
    /\ last.ret = "False"
    /\ Len(unconfirmed_transactions) = 2

\* a transaction with a known identity hash and another signature has been
\* refused
C6_WitnessResigned ==
    /\ Returned("add_transaction")
    /\ HasCalculateHash(last.arg)
    /\ tx_calculate_hash(last.arg) \in last.pre.known_transactions
    /\ last.arg \notin Range(last.pre.unconfirmed_transactions)
    /\ validate_transaction(last.arg)
    /\ last.ret = "False"

(***************************************************************************)
(* C7: confirmed transactions leave the mempool                            *)
(***************************************************************************)
\* a mempool entry and a block's transaction are the same payment: a block
\* carries the sender, recipient, amount, timestamp and signature
SamePayment(a, b) ==
    /\ a.sender = b.sender
    /\ a.recipient = b.recipient
    /\ a.amount = b.amount
    /\ a.timestamp = b.timestamp
    /\ a.signature = b.signature

\* C7: no transaction contained in a main-chain block is still in the
\* mempool.
C7_ConfirmedLeaveMempool ==
    \A i \in 1..Len(chain) : \A j \in 1..Len(chain[i].transactions) :
        \A n \in 1..Len(unconfirmed_transactions) :
            ~SamePayment(chain[i].transactions[j], unconfirmed_transactions[n])

(***************************************************************************)
(* C8: mine_block                                                          *)
(***************************************************************************)
Min(a, b) == IF a < b THEN a ELSE b

\* the candidate block mine_block builds from the object self
Candidate(self, miner, t) ==
    NewBlock(miner, TakeFirst(self.unconfirmed_transactions, 10),
             last_block(self).hash, 0, 0, self.difficulty, t)

\* C8: mine_block on an empty mempool returns nothing and changes nothing;
\* on n > 0 entries, when a nonce meeting the target exists, it returns a
\* block on the former tip with the chain's difficulty and the first
\* min(10, n) entries in order, the block is the new tip, and the mempool
\* keeps the other entries in order.
C8_MineBlock ==
    Returned("mine_block") =>
        LET pre == last.pre
            n   == Len(pre.unconfirmed_transactions)
        IN  IF n = 0
            THEN last.ret = <<>> /\ last.exc = None /\ Self = pre
            ELSE FirstNonce(pre.pow, Candidate(pre, last.arg, now), 0) < MaxMineNonce
                 => /\ last.exc = None
                    /\ Len(last.ret) = 1
                    /\ last.ret[1].previous_hash = last_block(pre).hash
                    /\ last.ret[1].difficulty = pre.difficulty
                    /\ last.ret[1].transactions
                         = TakeFirst(pre.unconfirmed_transactions, Min(10, n))
                    /\ chain = Append(pre.chain, last.ret[1])
                    /\ unconfirmed_transactions
                         = DropFirst(pre.unconfirmed_transactions, Min(10, n))

(***************************************************************************)
(* C11: add_transaction validation                                         *)
(***************************************************************************)
\* the transaction's identity hash is in the known set of the object self
Known(self, tx) ==
    HasCalculateHash(tx) /\ tx_calculate_hash(tx) \in self.known_transactions

\* C11: add_transaction of a transaction that is not yet known accepts it
\* exactly when sender and recipient are non-empty, the amount is positive
\* and a signature is present; an accepted transaction is appended to the
\* mempool and its identity hash joins the known set; a refused one returns
\* False and leaves the mempool and the known set as they were.
C11_AddTransaction ==
    (Returned("add_transaction") /\ ~Known(last.pre, last.arg)) =>
        IF validate_transaction(last.arg)
        THEN /\ last.exc = None
             /\ last.ret = "True"
             /\ unconfirmed_transactions
                  = Append(last.pre.unconfirmed_transactions, last.arg)
             /\ known_transactions
                  = last.pre.known_transactions \cup {tx_calculate_hash(last.arg)}
        ELSE /\ last.exc = None
             /\ last.ret = "False"
             /\ unconfirmed_transactions = last.pre.unconfirmed_transactions
             /\ known_transactions = last.pre.known_transactions

(***************************************************************************)
(* C12: pending blocks are retried on every tip advance                    *)
(***************************************************************************)
\* C12: when an operation that changed the tip has completed, no pending
\* block that passes the validity and proof-of-work checks has the tip's
\* hash as its previous_hash.
C12_RetriedOnTipAdvance ==
    (pc = "returned" /\ last.op # "__init__"
       /\ last_block(Self) # last_block(last.pre))
        => \A q \in PendingBlocks(pending_blocks) :
              ChainValidBlock(q) => q.previous_hash # last_block(Self).hash

(***************************************************************************)
(* C13: block status                                                       *)
(***************************************************************************)
\* the status the object self gives block b; the code keeps no record of
\* rejected blocks, so a block in neither collection reads UNKNOWN
Status(self, b) ==
    IF b \in Range(self.chain) THEN "ACCEPTED"
    ELSE IF b \in PendingBlocks(self.pending_blocks) THEN "PENDING"
    ELSE "UNKNOWN"

\* C13: a main-chain block is never also pending and never leaves the main
\* chain; a block that fails the integrity check is never pending or
\* accepted; a block's status only moves UNKNOWN -> PENDING -> ACCEPTED, and
\* only add_block with its pending drain changes it.
C13_StatusForward ==
    /\ [](\A b \in Range(chain) : b \notin PendingBlocks(pending_blocks))
    /\ [](\A b \in Range(DropFirst(chain, 1)) \cup PendingBlocks(pending_blocks) :
              is_valid(b))
    /\ [][\A b \in Range(chain) \cup PendingBlocks(pending_blocks) :
              /\ b \in Range(chain) => b \in Range(chain')
              /\ b \in Range(chain') \cup PendingBlocks(pending_blocks')]_vars
    /\ [][(pc' = "returned" /\ last'.op # "add_block")
              => /\ Range(chain') = Range(chain)
                 /\ PendingBlocks(pending_blocks') = PendingBlocks(pending_blocks)]_vars

(***************************************************************************)
(* C14: balance                                                            *)
(***************************************************************************)
\* the transactions of txs with each identity hash kept once, at its first
\* occurrence
RECURSIVE OncePerIdentity(_)
OncePerIdentity(txs) ==
    IF txs = <<>> THEN <<>>
    ELSE LET rest == OncePerIdentity(TakeFirst(txs, Len(txs) - 1))
             tx   == txs[Len(txs)]
         IN  IF \E i \in 1..Len(rest) :
                    tx_calculate_hash(rest[i]) = tx_calculate_hash(tx)
             THEN rest
             ELSE Append(rest, tx)

\* credits of amount to the recipient less debits of amount + fee from the
\* sender
RECURSIVE Ledger(_, _)
Ledger(txs, address) ==
    IF txs = <<>> THEN 0
    ELSE LET tx == txs[Len(txs)]
         IN  Ledger(TakeFirst(txs, Len(txs) - 1), address)
               + (IF tx.recipient = address THEN tx.amount ELSE 0)
               - (IF tx.sender = address THEN tx.amount + tx.fee ELSE 0)

\* C14: the chain's balance query returns, for every address, the sum of
\* amount over the main-chain transactions to the address less the sum of
\* amount + fee over those from it, each transaction identity counted once.
C14_Balance ==
    Returned("get_balance") =>
        last.ret = Ledger(OncePerIdentity(ChainTransactions(chain)), last.arg)

(***************************************************************************)
(* C15: a block's merkle_root and the MerkleTree root                      *)
(***************************************************************************)
\* C15: for every list of transactions, the empty list included, the
\* merkle_root of a block with these transactions equals the root hash of
\* the MerkleTree built over their dicts.
C15_RootsAgree ==
    Returned("MerkleTree") =>
        calculate_merkle_root(last.arg) = get_root_hash(tree)

(***************************************************************************)
(* C16: Merkle proofs verify                                               *)
(***************************************************************************)
\* 2 to the power k
RECURSIVE Pow2(_)
Pow2(k) == IF k = 0 THEN 1 ELSE 2 * Pow2(k - 1)

\* C16: for every tree over 1..MaxLeaves transactions and every transaction
\* in it, the proof get_proof returns for the transaction's hash verifies
\* against the root, on a first and on any later call; each step records
\* 'right' when the target's index on that level is even, 'left' when odd.
C16_ProofVerifies ==
    (Returned("get_proof")
       /\ \E i \in 1..Len(tree.transactions) :
             last.arg = hash_data(tree.transactions[i]))
        => /\ verify_proof(last.arg, last.ret, get_root_hash(tree))
           /\ \A k \in 1..Len(last.ret) :
                 last.ret[k].position =
                     IF (LeafIndex(tree.leaves, last.arg) \div Pow2(k - 1)) % 2 = 0
                     THEN "right" ELSE "left"

\* a proof for the last of three transactions has been returned by a tree
\* whose leaf list the build had padded: the target sits at an even index
\* on the first level and at an odd one on the second
C16_Witness ==
    /\ Returned("get_proof")
    /\ Len(tree.transactions) = 3
    /\ last.pre.leaves = tree.leaves
    /\ Len(tree.leaves) = 4
    /\ last.arg = hash_data(tree.transactions[3])
    /\ LeafIndex(tree.leaves, last.arg) = 2
    /\ Len(last.ret) = 2
    /\ last.ret[1].position = "right"
    /\ last.ret[2].position = "left"

\* a proof for the second of two transactions has been returned
C16_WitnessOddIndex ==
    /\ Returned("get_proof")
    /\ Len(tree.transactions) = 2
    /\ last.arg = hash_data(tree.transactions[2])
    /\ last.arg # hash_data(tree.transactions[1])
    /\ last.ret = <<[hash |-> hash_data(tree.transactions[1]), position |-> "left"]>>

(***************************************************************************)
(* C17: Merkle tamper detection                                            *)
(***************************************************************************)
\* proof p differs from proof q in one component of one step
OneStepChanged(p, q) ==
    /\ Len(p) = Len(q)
    /\ \E k \in 1..Len(q) :
          /\ \A j \in 1..Len(q) : j # k => p[j] = q[j]
          /\ \/ p[k].hash # q[k].hash /\ p[k].position = q[k].position
             \/ p[k].hash = q[k].hash /\ p[k].position # q[k].position

\* C17: verify_proof returns False for a valid (leaf hash, proof, root)
\* triple with the leaf hash, the root, or one component of one proof step
\* changed, and for a hash that is no leaf of the tree with the proof
\* get_proof returns for it.
C17_TamperDetected ==
    Returned("verify_proof") =>
        LET h == last.arg[1]
            p == last.arg[2]
            r == last.arg[3]
        IN  /\ \A h0 \in Range(tree.leaves) :
                  LET p0 == get_proof(tree, h0).ret
                      r0 == get_root_hash(tree)
                  IN  (\/ h # h0 /\ p = p0 /\ r = r0
                       \/ h = h0 /\ p = p0 /\ r # r0
                       \/ h = h0 /\ OneStepChanged(p, p0) /\ r = r0)
                      => last.ret = FALSE
            /\ (/\ h \notin Range(tree.leaves)
                /\ p = get_proof(tree, h).ret
                /\ r = get_root_hash(tree))
               => last.ret = FALSE

(***************************************************************************)
(* C18: ProofOfWork.mine                                                   *)
(***************************************************************************)
\* C18: mine does not raise; when a nonce below the maximum meets the
\* target it returns True with block.nonce the smallest such nonce and
\* block.hash the hash for it, and pow.validate(block) and block.is_valid()
\* hold; when none does it returns False.
C18_Mine ==
    Returned("mine") =>
        LET n == FirstNonce(pow, last.pre, 0)
        IN  /\ last.exc = None
            /\ IF n < MaxMineNonce
               THEN /\ last.ret = TRUE
                    /\ block.nonce = n
                    /\ block.hash = calculate_hash([last.pre EXCEPT !.nonce = n])
                    /\ pow_validate(pow, block)
                    /\ is_valid(block)
               ELSE last.ret = FALSE

(***************************************************************************)
(* C19: difficulty retarget                                                *)
(***************************************************************************)
\* what the retarget rule gives for difficulty d, n blocks whose timestamps
\* span `span` from the first to the last, and target time T: the mean of
\* the n - 1 successive deltas is span / (n - 1)
Retarget(d, n, span, T) ==
    IF n < MinRecent THEN <<>>
    ELSE IF 2 * span < T * (n - 1) THEN <<d + 1>>
    ELSE IF 2 * span > 3 * T * (n - 1) THEN <<IF d - 1 >= 1 THEN d - 1 ELSE 1>>
    ELSE <<>>

\* the blocks are slow: the mean delta exceeds 1.5 * T
Slow(n, span, T) == n >= MinRecent /\ 2 * span > 3 * T * (n - 1)

\* C19 as stated: adjust_difficulty follows the retarget rule, leaves the
\* validator's difficulty alone, and returns no value above the difficulty
\* when the blocks are slow.
C19_RetargetNeverRaises ==
    Returned("adjust_difficulty") =>
        LET blocks == last.arg[1]
            T      == last.arg[2]
            n      == Len(blocks)
            span   == blocks[n].timestamp - blocks[1].timestamp
        IN  /\ last.ret = Retarget(last.pre.difficulty, n, span, T)
            /\ pow = last.pre
            /\ (Slow(n, span, T) /\ last.ret # <<>>)
                 => last.ret[1] <= last.pre.difficulty

\* C19, amended: the same, where the returned value is not above the
\* difficulty for slow blocks provided the difficulty is at least 1 (from
\* difficulty 0 the floor of 1 is returned).
C19_Retarget ==
    Returned("adjust_difficulty") =>
        LET blocks == last.arg[1]
            T      == last.arg[2]
            n      == Len(blocks)
            span   == blocks[n].timestamp - blocks[1].timestamp
        IN  /\ last.ret = Retarget(last.pre.difficulty, n, span, T)
            /\ pow = last.pre
            /\ (Slow(n, span, T) /\ last.ret # <<>> /\ last.pre.difficulty >= 1)
                 => last.ret[1] <= last.pre.difficulty

\* slow blocks have lowered a difficulty of 2 to 1
C19_Witness ==
    /\ Returned("adjust_difficulty")
    /\ Len(last.arg[1]) = MinRecent
    /\ Slow(Len(last.arg[1]),
            last.arg[1][MinRecent].timestamp - last.arg[1][1].timestamp,
            last.arg[2])
    /\ pow.difficulty = 2
    /\ last.ret = <<1>>

\* fast blocks have raised the difficulty
C19_WitnessFast ==
    /\ Returned("adjust_difficulty")
    /\ Len(last.arg[1]) > MinRecent
    /\ last.ret = <<pow.difficulty + 1>>

\* a mean delta of exactly half the target time has left the difficulty
C19_WitnessBoundary ==
    /\ Returned("adjust_difficulty")
    /\ Len(last.arg[1]) = MinRecent
    /\ 2 * (last.arg[1][MinRecent].timestamp - last.arg[1][1].timestamp)
         = last.arg[2] * (MinRecent - 1)
    /\ last.ret = <<>>

(***************************************************************************)
(* C20: address round trip                                                 *)
(***************************************************************************)
\* C20: the address a wallet derives from its key pair is accepted by
\* address validation, and a wallet can create a transaction of a positive
\* amount to every wallet-derived address.
C20_AddressRoundTrip ==
    /\ Returned("Wallet") => is_valid_address(wallet.address)
    /\ (Returned("_is_valid_address") /\ last.arg \in DerivedAddresses)
         => last.ret = TRUE
    /\ (Returned("create_transaction") /\ last.arg[1] \in DerivedAddresses
          /\ last.arg[2] > 0)
         => /\ last.exc = None
            /\ Len(last.ret) = 1
            /\ last.ret[1].recipient = last.arg[1]

(***************************************************************************)
(* Properties of the gossip component.                                     *)
(***************************************************************************)
\* a datagram of the type has just been handled
Handling(type) ==
    Returned("handle_message") /\ Get(last.arg.data, "type", None) = type

\* the peer a HELLO registers: the sender's address, the clock reading, the
\* id and version of the message, height 0
Registered(data, addr, t) ==
    [host |-> addr[1], port |-> addr[2], last_seen |-> t,
     node_id |-> Get(data, "node_id", None),
     version |-> Get(data, "version", None), height |-> 0]

\* C21: the peer table never holds more than MAX_PEERS peers; a HELLO from a
\* node_id that is not in the table appends a peer with the sender's address
\* and height 0 exactly when the table holds fewer than MAX_PEERS entries,
\* and a HELLO leaves every entry that was in the table as it was.
C21_PeerAdmission ==
    /\ Len(gossip.peers) <= MAX_PEERS
    /\ Handling("HELLO") =>
          LET before  == last.pre.gossip.peers
              node_id == Get(last.arg.data, "node_id", None)
          IN  /\ \A i \in 1..Len(before) :
                    i <= Len(gossip.peers) /\ gossip.peers[i] = before[i]
              /\ IF ~DictHas(before, node_id) /\ Len(before) < MAX_PEERS
                 THEN gossip.peers =
                        Append(before,
                               [k |-> node_id,
                                v |-> Registered(last.arg.data, last.arg.addr, now)])
                 ELSE gossip.peers = before

\* a HELLO from a node that was not in the table has registered it
C21_Witness ==
    /\ Handling("HELLO")
    /\ ~DictHas(last.pre.gossip.peers, last.arg.data.node_id)
    /\ DictHas(gossip.peers, last.arg.data.node_id)
    /\ PeerOf(gossip, last.arg.data.node_id).host = last.arg.addr[1]
    /\ PeerOf(gossip, last.arg.data.node_id).height = 0

\* a HELLO from a node that was not in the table found the table full
C21_WitnessFull ==
    /\ Handling("HELLO")
    /\ ~DictHas(last.pre.gossip.peers, last.arg.data.node_id)
    /\ Len(last.pre.gossip.peers) = MAX_PEERS
    /\ gossip.peers = last.pre.gossip.peers

\* a HELLO under the id of a peer came later and from another address
C21_WitnessKnown ==
    /\ Handling("HELLO")
    /\ DictHas(last.pre.gossip.peers, last.arg.data.node_id)
    /\ PeerOf(gossip, last.arg.data.node_id).host # last.arg.addr[1]
    /\ PeerOf(gossip, last.arg.data.node_id).last_seen < now

\* the message types of the protocol
MessageTypes == {"HELLO", "STATUS", "GET_BLOCKS", "BLOCKS", "NEW_TRANSACTION"}

\* C22: when a message of any of the five types from a registered peer has
\* been handled, the peer is still registered and its last_seen is the time
\* of the message, so that a peer that keeps sending is not timed out.
C22_RefreshedByAnyMessage ==
    (/\ Returned("handle_message")
     /\ Get(last.arg.data, "type", None) \in MessageTypes
     /\ DictHas(last.pre.gossip.peers, Get(last.arg.data, "node_id", None))) =>
        /\ DictHas(gossip.peers, last.arg.data.node_id)
        /\ PeerOf(gossip, last.arg.data.node_id).last_seen = now

\* a STATUS from a registered peer, later than its HELLO, was handled
C22_WitnessStatus ==
    /\ Handling("STATUS")
    /\ DictHas(last.pre.gossip.peers, last.arg.data.node_id)
    /\ PeerOf(last.pre.gossip, last.arg.data.node_id).last_seen < now
    /\ PeerOf(gossip, last.arg.data.node_id).last_seen = now

\* a cleanup task is waiting to run at the present clock reading
CleanupDue ==
    \E i \in 1..Len(loop.tasks) :
        loop.tasks[i].kind = "cleanup" /\ loop.tasks[i].wake <= now

\* C23: a cleanup pass removes exactly the peers with
\* now - last_seen > PEER_TIMEOUT and keeps the others as they are and in
\* their order; and while the protocol is running, once the cleanup tasks
\* that are due have run, no peer is in the table whose last_seen is more
\* than PEER_TIMEOUT + CLEANUP_INTERVAL old.
C23_Eviction ==
    /\ (Returned("_cleanup_peers") /\ last.ret = "sleep") =>
          LET before == last.pre.gossip.peers
              Fresh(item) == now - item.v.last_seen <= PEER_TIMEOUT
          IN  /\ gossip.peers = SelectSeq(before, Fresh)
              /\ \A i \in 1..Len(before) :
                    DictHas(gossip.peers, before[i].k) <=> Fresh(before[i])
    /\ (Returned("_cleanup_peers") /\ last.ret = "exit") =>
          gossip.peers = last.pre.gossip.peers
    /\ (gossip.running /\ ~CleanupDue) =>
          \A i \in 1..Len(gossip.peers) :
              now - gossip.peers[i].v.last_seen <= PEER_TIMEOUT + CLEANUP_INTERVAL

\* a pass has removed a peer from a full table
C23_Witness ==
    /\ Returned("_cleanup_peers")
    /\ Len(last.pre.gossip.peers) = MAX_PEERS
    /\ Len(gossip.peers) < MAX_PEERS
    /\ \E i \in 1..Len(last.pre.gossip.peers) :
          now - last.pre.gossip.peers[i].v.last_seen > PEER_TIMEOUT

\* a pass has kept a peer whose age is exactly the timeout
C23_WitnessBoundary ==
    /\ Returned("_cleanup_peers") /\ last.ret = "sleep"
    /\ \E i \in 1..Len(gossip.peers) :
          now - gossip.peers[i].v.last_seen = PEER_TIMEOUT

\* the GET_BLOCKS datagram the node sends to addr for the blocks from n on
BlockRequest(n, addr) ==
    [message |-> [type |-> "GET_BLOCKS", start |-> n, node_id |-> LocalId],
     addr |-> addr]

\* what the claim says of a STATUS that has been handled, for the sender
\* node_id, the advertised height and the chain before the call
StatusHandled(node_id, height, before) ==
    /\ DictHas(gossip.peers, node_id)
    /\ PeerOf(gossip, node_id).last_seen = now
    /\ PeerOf(gossip, node_id).height = height
    /\ IF height > Len(before)
       THEN last.ret.sent = <<BlockRequest(Len(before), last.arg.addr)>>
       ELSE last.ret.sent = <<>>

\* C24 as stated: whoever sends the STATUS, the node records the sender's
\* last_seen and height and sends GET_BLOCKS from its chain length on exactly
\* when the advertised height exceeds that length.
C24_StatusFromAnyone ==
    Handling("STATUS") =>
        StatusHandled(Get(last.arg.data, "node_id", None),
                      Get(last.arg.data, "height", 0),
                      last.pre.blockchain.chain)

\* C24: a STATUS from a node that is in the peer table sets the peer's
\* last_seen to the time of handling and its height to the advertised one
\* (0 when the message has none), leaves the rest of the table and the chain
\* state alone, and makes the node send the sender one GET_BLOCKS with start
\* equal to the local chain length exactly when the advertised height
\* exceeds that length; a STATUS from any other node changes and sends
\* nothing.
C24_StatusFromPeer ==
    Handling("STATUS") =>
        LET node_id == Get(last.arg.data, "node_id", None)
            height  == Get(last.arg.data, "height", 0)
            before  == last.pre.gossip.peers
        IN  /\ Self = last.pre.blockchain
            /\ IF DictHas(before, node_id)
               THEN /\ StatusHandled(node_id, height, last.pre.blockchain.chain)
                    /\ gossip.peers =
                         DictSet(before, node_id,
                                 [PeerOf(last.pre.gossip, node_id) EXCEPT
                                     !.last_seen = now, !.height = height])
               ELSE /\ gossip = last.pre.gossip
                    /\ last.ret.sent = <<>>

\* a peer that advertises more blocks than a chain of two has was asked for
\* the blocks from 2 on, after its HELLO had aged
C24_Witness ==
    /\ Handling("STATUS")
    /\ DictHas(last.pre.gossip.peers, last.arg.data.node_id)
    /\ PeerOf(last.pre.gossip, last.arg.data.node_id).last_seen < now
    /\ Len(chain) = 2
    /\ Get(last.arg.data, "height", 0) > 2
    /\ last.ret.sent = <<BlockRequest(2, last.arg.addr)>>

\* a peer that advertises exactly the local length was asked for nothing
C24_WitnessEqual ==
    /\ Handling("STATUS")
    /\ DictHas(last.pre.gossip.peers, last.arg.data.node_id)
    /\ Len(chain) >= 2
    /\ Get(last.arg.data, "height", 0) = Len(chain)
    /\ PeerOf(gossip, last.arg.data.node_id).height = Len(chain)
    /\ last.ret.sent = <<>>

\* the NEW_TRANSACTION datagram the node sends to a peer for the transaction
Relayed(tx, peer) ==
    [message |-> [type |-> "NEW_TRANSACTION", transaction |-> tx_dict(tx),
                  node_id |-> LocalId],
     addr |-> <<peer.host, peer.port>>]

\* C25: a NEW_TRANSACTION that carries a valid transaction the chain state
\* does not know yet puts it into the mempool and sends it on once to every
\* peer of the table; one that carries a known or invalid transaction, or
\* none that deserializes, changes the mempool not and sends nothing.
C25_Relay ==
    Handling("NEW_TRANSACTION") =>
        LET d  == tx_from_dict(Get(last.arg.data, "transaction", NoneDict))
            bc == last.pre.blockchain
        IN  IF /\ d.exc = None
               /\ validate_transaction(d.tx)
               /\ tx_calculate_hash(d.tx) \notin bc.known_transactions
            THEN /\ unconfirmed_transactions =
                      Append(bc.unconfirmed_transactions, d.tx)
                 /\ last.ret.sent =
                      [i \in 1..Len(gossip.peers) |-> Relayed(d.tx, gossip.peers[i].v)]
            ELSE /\ unconfirmed_transactions = bc.unconfirmed_transactions
                 /\ last.ret.sent = <<>>

\* a valid transaction arrived at a node that has a peer
C25_WitnessValid ==
    /\ Handling("NEW_TRANSACTION")
    /\ gossip.peers # <<>>
    /\ Get(last.arg.data, "transaction", NoneDict) = tx_dict(BT1)
    /\ last.exc = "AttributeError"

\* the blocks of a BLOCKS message that deserialize, in list order
RECURSIVE Deserialized(_, _)
Deserialized(blocks_data, t) ==
    IF blocks_data = <<>> THEN <<>>
    ELSE (IF block_from_dict(blocks_data[1], t).exc = None
          THEN <<block_from_dict(blocks_data[1], t).block>>
          ELSE <<>>)
           \o Deserialized(DropFirst(blocks_data, 1), t)

\* C27: handling a BLOCKS message offers every block of the list that can be
\* deserialized to add_block, in list order and whatever happened to the
\* blocks before it, and leaves the peer table as it was.
C27_EveryBlockOffered ==
    Handling("BLOCKS") =>
        LET blocks == Deserialized(Get(last.arg.data, "blocks", <<>>), now)
        IN  /\ last.ret.offered = blocks
            /\ Self = OfferBlocks(last.pre.blockchain, blocks)
            /\ gossip = last.pre.gossip

\* a block was appended although add_block had refused the block before it
C27_WitnessAfterRejection ==
    /\ Handling("BLOCKS")
    /\ Len(last.ret.offered) = 2
    /\ add_block(last.pre.blockchain, last.ret.offered[1]).self = last.pre.blockchain
    /\ Len(chain) = Len(last.pre.blockchain.chain) + 1
    /\ chain[Len(chain)] = last.ret.offered[2]

\* C27, for messages whose blocks all deserialize
C27_OfferedWhenWellFormed ==
    (/\ Handling("BLOCKS")
     /\ Len(Deserialized(Get(last.arg.data, "blocks", <<>>), now))
          = Len(Get(last.arg.data, "blocks", <<>>))) =>
        /\ last.ret.offered = Deserialized(Get(last.arg.data, "blocks", <<>>), now)
        /\ Self = OfferBlocks(last.pre.blockchain, last.ret.offered)
        /\ gossip = last.pre.gossip

\* the number of periodic tasks of the kind in the loop
TaskCount(kind) ==
    LET Is(task) == task.kind = kind IN Len(SelectSeq(loop.tasks, Is))

\* C26: whatever start and stop calls were made, a running protocol has
\* exactly one open UDP endpoint, one periodic-status task and one
\* peer-cleanup task, a stopped one has no open endpoint, and a periodic task
\* that wakes while the protocol is stopped exits without sending.
C26_OneOfEach ==
    /\ gossip.running =>
          /\ Cardinality(loop.endpoints) = 1
          /\ TaskCount("gossip") = 1
          /\ TaskCount("cleanup") = 1
    /\ ~gossip.running => loop.endpoints = {}
    /\ (Returned("_periodic_gossip") /\ ~last.pre.gossip.running) =>
          /\ last.exc = "exit"
          /\ last.ret.sent = <<>>
          /\ TaskCount("gossip") = Len(SelectSeq(last.pre.loop.tasks,
                                                 LAMBDA task : task.kind = "gossip")) - 1

\* a task created by an earlier start broadcasts STATUS next to the task of
\* the latest start
C26_WitnessOldTaskRuns ==
    /\ Returned("_periodic_gossip")
    /\ last.ret.sent # <<>>
    /\ TaskCount("gossip") = 2

\* C26 without the count of tasks: endpoints, and tasks that wake while the
\* protocol is stopped
C26_EndpointsAndExit ==
    /\ Cardinality(loop.endpoints) = (IF gossip.running THEN 1 ELSE 0)
    /\ (Returned("_periodic_gossip") /\ ~last.pre.gossip.running) =>
          last.exc = "exit" /\ last.ret.sent = <<>>
    /\ (Returned("_cleanup_peers") /\ ~last.pre.gossip.running) =>
          last.ret = "exit"

(***************************************************************************)
(* C28: mine_block as one sequence                                         *)
(***************************************************************************)
\* the entries a call took out of the front of the mempool `before`
Removed(before, after) ==
    TakeFirst(before, Len(before) - Len(after))

C28_NothingDropped ==
    Returned("mine_block") =>
        /\ unconfirmed_transactions = last.pre.unconfirmed_transactions
        /\ chain = last.pre.chain
        /\ last.ret = <<>>

\* mine_block was called on a mempool with an entry
C28_WitnessCalled ==
    /\ Returned("mine_block")
    /\ last.pre.unconfirmed_transactions # <<>>
    /\ last.exc = "AttributeError"

(***************************************************************************)
(* C30: one position per transaction                                       *)
(***************************************************************************)
\* C30: no transaction occurs in more than one position of the main chain.
C30_NoDuplicateTransactions ==
    LET txs == ChainTransactions(chain)
    IN  \A i \in 1..Len(txs) : \A j \in 1..Len(txs) :
            i # j => ~SamePayment(txs[i], txs[j])

\* the block just appended by add_block carries a transaction that an
\* earlier block of the chain already holds
C30_WitnessAppendedTwice ==
    /\ Returned("add_block")
    /\ last.ret = "True"
    /\ \E tx \in Range(last.arg.transactions) :
          \E old \in Range(ChainTransactions(last.pre.chain)) : SamePayment(tx, old)

(***************************************************************************)
(* C29: synchronization with a peer that has the longer chain              *)
(***************************************************************************)
\* chain a is the beginning of chain b
IsPrefix(a, b) == Len(a) <= Len(b) /\ a = TakeFirst(b, Len(a))

\* the chain of the remote node
RemoteChain == remote.blockchain.chain

\* the two nodes have registered each other, the node under study listens,
\* and the remote node's chain, on the same genesis block, is the longer one
Behind ==
    /\ DictHas(gossip.peers, RemoteId)
    /\ DictHas(remote.gossip.peers, LocalId)
    /\ loop.endpoints # {}
    /\ chain[1] = RemoteChain[1]
    /\ Len(RemoteChain) > Len(chain)

\* the oldest datagram in flight is the remote node's reply with its blocks
\* from the length of the local chain on
ReplyInFlight ==
    /\ HeadFor(LocalAddr)
    /\ net[1].from = RemoteAddr
    /\ net[1].message.type = "BLOCKS"
    /\ net[1].message.blocks
         = [j \in 1..(Len(RemoteChain) - Len(chain)) |->
               block_to_dict(RemoteChain[Len(chain) + j])]

\* the two chains differ in a block they both have
Forked ==
    \E i \in 1..Min(Len(chain), Len(RemoteChain)) : chain[i] # RemoteChain[i]

\* the first half of C29: when A's chain is a prefix of B's longer chain and
\* B's reply carries B's blocks from A's length on, A's chain equals B's
\* once the reply is handled
C29_PrefixCatchUp ==
    [][(ReplyInFlight /\ IsPrefix(chain, RemoteChain)
          /\ Len(chain) < Len(RemoteChain) /\ net' = DropFirst(net, 1))
         => chain' = RemoteChain']_vars

\* the second half of C29: a node whose chain is a shorter fork of its
\* peer's chain eventually holds the peer's chain
C29_ForkAdopted == (Behind /\ Forked) ~> (chain = RemoteChain)

\* C29: when A has B as a peer, no message is lost and B's chain is longer
\* than A's, then once B's STATUS, A's GET_BLOCKS and B's BLOCKS reply are
\* handled A's main chain equals B's if A's chain was a prefix of B's, and
\* if it was a shorter fork on B's genesis block A eventually adopts B's
\* chain.
C29_Converges == C29_PrefixCatchUp /\ C29_ForkAdopted

\* the same when A holds no pending block
C29_PrefixCatchUpNothingQueued ==
    [][(ReplyInFlight /\ IsPrefix(chain, RemoteChain) /\ pending_blocks = <<>>
          /\ Len(chain) < Len(RemoteChain) /\ net' = DropFirst(net, 1))
         => chain' = RemoteChain']_vars

\* while the nodes only exchange STATUS, GET_BLOCKS and BLOCKS, chains that
\* have forked stay forked
C29_ForkStays == [][Forked => Forked']_vars

\* the request A sends on a STATUS of B asks for the blocks from its own
\* length on, and every BLOCKS reply of B carries a slice of B's chain
C29_RequestAndReply ==
    /\ \A i \in 1..Len(net) :
          (net[i].addr = RemoteAddr /\ net[i].message.type = "GET_BLOCKS") =>
              /\ net[i].message.start \in 1..Len(chain)
              /\ net[i].message.node_id = LocalId
    /\ \A i \in 1..Len(net) :
          (net[i].from = RemoteAddr /\ net[i].message.type = "BLOCKS") =>
              \E n \in 1..Len(RemoteChain) : \E m \in n..Len(RemoteChain) :
                  net[i].message.blocks
                    = [j \in 1..(m - n) |-> block_to_dict(RemoteChain[n + j])]

\* A has caught up with B by two blocks
C29_WitnessCaughtUp ==
    /\ Len(chain) = 3
    /\ chain = RemoteChain
    /\ pending_blocks = <<>>
    /\ net = <<>>

\* A, on a shorter fork, holds the block B sent from A's length on in its
\* pending blocks, with no datagram in flight
C29_WitnessForkQueued ==
    /\ Behind
    /\ Forked
    /\ net = <<>>
    /\ Len(RemoteChain) = Len(chain) + 1
    /\ DictHas(pending_blocks, RemoteChain[Len(RemoteChain)].hash)

\* A's chain was a prefix of B's; after B's reply it is a fork of B's chain
\* of the same length, with B's last block in A's pending blocks
C29_WitnessPrefixForked ==
    /\ Forked
    /\ Len(chain) = 3
    /\ Len(RemoteChain) = 3
    /\ chain[2] = RemoteChain[2]
    /\ DictHas(pending_blocks, RemoteChain[3].hash)
    /\ net = <<>>

(***************************************************************************)
(* The main chain across the operations of the chain state.                *)
(***************************************************************************)
\* C31: across every operation of the chain state (add_transaction,
\* mine_block, add_block with its pending drain, replace_chain) the main
\* chain is never empty, its length never decreases, chain[0] remains the
\* genesis block created at construction, and the chain difficulty and the
\* proof-of-work object (difficulty and target) never change
C31_ChainStable ==
    [][/\ chain' # <<>>
       /\ Len(chain') >= Len(chain)
       /\ chain'[1] = chain[1]
       /\ difficulty' = difficulty
       /\ pow' = pow]_vars

\* what the operations keep: a non-empty chain, the hash field of chain[0],
\* the chain difficulty and the proof-of-work object
C31_NonEmptySameGenesisHash ==
    /\ chain # <<>>
    /\ chain[1].hash = Genesis0.hash
    /\ difficulty = Difficulty
    /\ pow = NewProofOfWork(Difficulty)

\* no operation makes the chain shorter
C31_LengthNeverDecreases == [][Len(chain') >= Len(chain)]_vars

\* add_block, with its drain, changes the chain only by appending to it
C31_AddBlockAppends ==
    Returned("add_block") => IsPrefix(last.pre.chain, chain)

\* only replace_chain puts another block in place of chain[0]
C31_GenesisKeptButByReplace ==
    [][(chain'[1] # chain[1]) =>
          (pc' = "returned" /\ last'.op = "replace_chain" /\ last'.ret = "True")]_vars

\* replace_chain has adopted a longer chain whose first block carries the
\* genesis hash but is not the genesis block constructed with the chain
C31_WitnessForgedGenesis ==
    /\ Returned("replace_chain")
    /\ last.ret = "True"
    /\ Len(chain) > Len(last.pre.chain)
    /\ chain[1].hash = Genesis0.hash
    /\ chain[1] # Genesis0
    /\ last.pre.chain[1] = Genesis0

\* replace_chain has dropped a block of the chain for a longer fork
C31_WitnessForkReplaced ==
    /\ Returned("replace_chain")
    /\ last.ret = "True"
    /\ Len(last.pre.chain) >= 2
    /\ chain[2] # last.pre.chain[2]

(***************************************************************************)
(* A BLOCKS message that arrives again.                                    *)
(***************************************************************************)
\* a BLOCKS message has just been handled whose blocks, at least one, all
\* deserialize and were all in the main chain before it arrived
Redelivered ==
    /\ Handling("BLOCKS")
    /\ last.exc = None
    /\ last.ret.offered # <<>>
    /\ \A i \in 1..Len(last.ret.offered) :
          last.ret.offered[i] \in Range(last.pre.blockchain.chain)

\* C32: handling again a BLOCKS message whose blocks are all in the main
\* chain already leaves the main chain, the mempool and the pending blocks
\* exactly as they were
C32_RedeliveryIgnored ==
    Redelivered =>
        /\ chain = last.pre.blockchain.chain
        /\ unconfirmed_transactions = last.pre.blockchain.unconfirmed_transactions
        /\ pending_blocks = last.pre.blockchain.pending_blocks

\* the bound the claim draws from it: the pending blocks are blocks that the
\* chain has not accepted
C32_PendingNotAccepted ==
    \A i \in 1..Len(pending_blocks) : pending_blocks[i].v \notin Range(chain)

\* what the handler keeps on such a message: the chain, the mempool, the
\* known transactions and the protocol object, the set of seen messages
\* included
C32_RedeliveryKeepsChain ==
    Redelivered =>
        /\ chain = last.pre.blockchain.chain
        /\ unconfirmed_transactions = last.pre.blockchain.unconfirmed_transactions
        /\ known_transactions = last.pre.blockchain.known_transactions
        /\ gossip = last.pre.gossip

\* every block of such a message is a pending block afterwards, under its
\* own hash
C32_RedeliveryQueues ==
    Redelivered =>
        \A i \in 1..Len(last.ret.offered) :
            \E j \in 1..Len(pending_blocks) :
                /\ pending_blocks[j].k = last.ret.offered[i].hash
                /\ pending_blocks[j].v = last.ret.offered[i]

\* one more delivery of the message changes nothing more: the entries are
\* keyed by the block hash
C32_ThirdDeliveryIgnored ==
    Redelivered => OfferBlocks(Self, last.ret.offered) = Self

\* nothing records a handled message
C32_NothingSeen == gossip.known_messages = {}

\* the first block of the chain arrived again and is now a pending block
C32_WitnessRedelivered ==
    /\ Redelivered
    /\ Len(chain) = 2
    /\ last.ret.offered = <<chain[2]>>
    /\ last.pre.blockchain.pending_blocks = <<>>
    /\ pending_blocks = <<[k |-> chain[2].hash, v |-> chain[2]]>>

====
